---- MODULE Spec2Model ----
(***************************************************************************)
(* Model of the unmatched-pages pipeline of gradescope-tools:              *)
(*   archive reader thread -> submissions() -> unmatched() -> submitters() *)
(*   -> report stream, together with the pure functions it is built from   *)
(*   (question-number grammar, QuestionNumber order, the outline diff).    *)
(* Text is modelled as a sequence of one-character strings.                *)
(***************************************************************************)
EXTENDS Integers, Sequences, FiniteSets, TLC

(***************************************************************************)
(* Results: Rust's Result<T, E> and Option<T>.                             *)
(***************************************************************************)
Ok(v) == [ok |-> TRUE, val |-> v]

Err(e) == [ok |-> FALSE, err |-> e]

None == [some |-> FALSE]

Some(v) == [some |-> TRUE, val |-> v]

\* F applied to the value of v, with v evaluated once
Bind(v, F(_)) == CHOOSE r \in {F(x) : x \in {v}} : TRUE

(***************************************************************************)
(* Character-sequence helpers (str::ends_with, char::is_whitespace, tag).  *)
(***************************************************************************)
Whitespace == {" ", "\n", "\t", "\r"}

Digits == <<"0","1","2","3","4","5","6","7","8","9">>

IsDigit(c) == \E k \in 1..10 : Digits[k] = c

DigitValue(c) == (CHOOSE k \in 1..10 : Digits[k] = c) - 1

ends_with(s, suffix) ==
    /\ Len(suffix) <= Len(s)
    /\ SubSeq(s, Len(s) - Len(suffix) + 1, Len(s)) = suffix

\* String::retain(|c| !c.is_whitespace())
IsNotWhitespace(c) == c \notin Whitespace

retain_non_whitespace(s) == SelectSeq(s, IsNotWhitespace)

\* nom's tag at position i (1-based index of the next unread character)
TagAt(target, text, i) ==
    /\ i + Len(target) - 1 <= Len(text)
    /\ \A k \in 1..Len(target) : text[i + k - 1] = target[k]

\* tag_ws: the target with its whitespace stripped
tag_ws(target) == retain_non_whitespace(target)

TotalPointsPhrase == <<"T","o","t","a","l"," ","P","o","i","n","t","s">>

QuestionsLabel == <<"Q","u","e","s","t","i","o","n","s"," ","a","s","s","i","g","n","e","d"," ","t","o"," ","t","h","e"," ","f","o","l","l","o","w","i","n","g"," ","p","a","g","e",":">>

QuestionLabel == <<"Q","u","e","s","t","i","o","n"," ","a","s","s","i","g","n","e","d"," ","t","o"," ","t","h","e"," ","f","o","l","l","o","w","i","n","g"," ","p","a","g","e",":">>

NoQuestionsLabel == <<"N","o"," ","q","u","e","s","t","i","o","n","s"," ","a","s","s","i","g","n","e","d"," ","t","o"," ","t","h","e"," ","f","o","l","l","o","w","i","n","g"," ","p","a","g","e",".">>

AndWord == <<"a","n","d">>

PdfSuffix == <<".","p","d","f">>

(***************************************************************************)
(* QuestionNumber (question.rs): Vec<NonZeroU8> with the derived Ord.      *)
(***************************************************************************)
U8Max == 255

\* mutant: the shorter number sorts first, equal lengths lexicographically
QnCmp_ShortLex(a, b) ==
    IF Len(a) < Len(b) THEN "Less"
    ELSE IF Len(a) > Len(b) THEN "Greater"
    ELSE LET d == {i \in 1..Len(a) : a[i] # b[i]}
         IN IF d = {} THEN "Equal"
            ELSE LET k == CHOOSE i \in d : \A j \in d : i <= j
                 IN IF a[k] < b[k] THEN "Less" ELSE "Greater"

\* derived Ord on Vec: lexicographic, a proper prefix sorts first
RECURSIVE QnCmp(_, _)
QnCmp(a, b) ==
    IF a = <<>> /\ b = <<>> THEN "Equal"
    ELSE IF a = <<>> THEN "Less"
    ELSE IF b = <<>> THEN "Greater"
    ELSE IF Head(a) < Head(b) THEN "Less"
    ELSE IF Head(a) > Head(b) THEN "Greater"
    ELSE QnCmp(Tail(a), Tail(b))

\* u8::from_str on a digit string: checked multiply-add, empty is an error
RECURSIVE ParseU8Acc(_, _)
ParseU8Acc(s, acc) ==
    IF s = <<>> THEN Ok(acc)
    ELSE IF ~IsDigit(Head(s)) THEN Err("InvalidDigit")
    ELSE LET v == acc * 10 + DigitValue(Head(s))
         IN IF v > U8Max THEN Err("PosOverflow") ELSE ParseU8Acc(Tail(s), v)

\* mutant: the components are parsed as signed bytes
NonZeroU8FromStr_Signed(s) ==
    IF s = <<>> THEN Err("Empty")
    ELSE LET r == ParseU8Acc(s, 0)
         IN IF ~r.ok THEN r
            ELSE IF r.val = 0 THEN Err("Zero")
            ELSE IF r.val > 127 THEN Err("PosOverflow")
            ELSE r

\* mutant: the components wrap around at 256 instead of overflowing
RECURSIVE ParseU8Acc_Wrapping(_, _)
ParseU8Acc_Wrapping(s, acc) ==
    IF s = <<>> THEN Ok(acc)
    ELSE IF ~IsDigit(Head(s)) THEN Err("InvalidDigit")
    ELSE ParseU8Acc_Wrapping(Tail(s), (acc * 10 + DigitValue(Head(s))) % (U8Max + 1))

NonZeroU8FromStr_Wrapping(s) ==
    IF s = <<>> THEN Err("Empty")
    ELSE LET r == ParseU8Acc_Wrapping(s, 0)
         IN IF ~r.ok THEN r
            ELSE IF r.val = 0 THEN Err("Zero")
            ELSE r

\* NonZeroU8::from_str: an optional "+", then decimal digits
NonZeroU8FromStr(s) ==
    IF s = <<>> THEN Err("Empty")
    ELSE IF Len(s) = 1 /\ Head(s) \in {"+", "-"} THEN Err("InvalidDigit")
    ELSE LET r == ParseU8Acc(IF Head(s) = "+" THEN Tail(s) ELSE s, 0)
         IN IF ~r.ok THEN r
            ELSE IF r.val = 0 THEN Err("Zero")
            ELSE r

\* str::split('.'): the pieces between the dots (always at least one piece)
RECURSIVE SplitDot(_, _)
SplitDot(s, cur) ==
    IF s = <<>> THEN <<cur>>
    ELSE IF Head(s) = "." THEN <<cur>> \o SplitDot(Tail(s), <<>>)
    ELSE SplitDot(Tail(s), Append(cur, Head(s)))

RECURSIVE TryCollectParts(_)
TryCollectParts(parts) ==
    IF parts = <<>> THEN Ok(<<>>)
    ELSE Bind(NonZeroU8FromStr(Head(parts)), LAMBDA h :
            IF ~h.ok THEN h
            ELSE Bind(TryCollectParts(Tail(parts)), LAMBDA t :
                    IF ~t.ok THEN t ELSE Ok(<<h.val>> \o t.val)))

\* impl FromStr for QuestionNumber
QuestionNumber_from_str(s) == TryCollectParts(SplitDot(s, <<>>))

\* Display of one NonZeroU8
RECURSIVE U8Display(_)
U8Display(n) ==
    IF n < 10 THEN <<Digits[n + 1]>>
    ELSE U8Display(n \div 10) \o <<Digits[(n % 10) + 1]>>

\* impl Display for QuestionNumber: the components joined by "."
RECURSIVE QuestionNumber_display(_)
QuestionNumber_display(q) ==
    IF q = <<>> THEN <<>>
    ELSE IF Len(q) = 1 THEN U8Display(q[1])
    ELSE U8Display(Head(q)) \o <<".">> \o QuestionNumber_display(Tail(q))

\* [&str]::join(".")
RECURSIVE JoinDot(_)
JoinDot(parts) ==
    IF parts = <<>> THEN <<>>
    ELSE IF Len(parts) = 1 THEN parts[1]
    ELSE Head(parts) \o <<".">> \o JoinDot(Tail(parts))

(***************************************************************************)
(* The question-number grammar (pdf.rs), nom 7 combinators.  A parser      *)
(* takes the text and the position of the next unread character and        *)
(* returns [ok, pos, val].                                                 *)
(***************************************************************************)
POk(p, v) == [ok |-> TRUE, pos |-> p, val |-> v]

PErr(p) == [ok |-> FALSE, pos |-> p]

\* the tags of the grammar: tag_ws strips the blanks once, when the parser
\* is built
TotalPointsTag == tag_ws(TotalPointsPhrase)

PageLabelTags == <<tag_ws(QuestionsLabel), tag_ws(QuestionLabel), tag_ws(NoQuestionsLabel)>>

AndTag == tag_ws(AndWord)

\* alt((tag1, tag2, ...)): the first alternative that matches at i
RECURSIVE AltTags(_, _, _)
AltTags(tags, text, i) ==
    IF tags = <<>> THEN PErr(i)
    ELSE IF TagAt(Head(tags), text, i) THEN POk(i + Len(Head(tags)), <<>>)
    ELSE AltTags(Tail(tags), text, i)

\* skip_thru(comb) = many_till(anychar, comb): comb is tried at i, i + 1, ...
\* and the first position where it matches ends the skip; no match up to
\* the end of the text is an error
skip_thru(tags, text, i) ==
    Bind({j \in i..Len(text) : AltTags(tags, text, j).ok}, LAMBDA hits :
        IF hits = {} THEN PErr(Len(text) + 1)
        ELSE AltTags(tags, text, CHOOSE j \in hits : \A h \in hits : j <= h))

\* digit1: one or more ASCII digits
RECURSIVE DigitsEnd(_, _)
DigitsEnd(text, i) ==
    IF i <= Len(text) /\ IsDigit(text[i]) THEN DigitsEnd(text, i + 1) ELSE i

digit1(text, i) ==
    Bind(DigitsEnd(text, i), LAMBDA e :
        IF e = i THEN PErr(i) ELSE POk(e, SubSeq(text, i, e - 1)))

\* the loop of separated_list1(char('.'), digit1) after the first element
RECURSIVE DotListLoop(_, _, _)
DotListLoop(text, i, acc) ==
    IF i <= Len(text) /\ text[i] = "."
    THEN Bind(digit1(text, i + 1), LAMBDA d :
            IF d.ok THEN DotListLoop(text, d.pos, Append(acc, d.val))
            ELSE POk(i, acc))
    ELSE POk(i, acc)

\* question_num: map_res(separated_list1(char('.'), digit1), from_str(join))
question_num(text, i) ==
    Bind(digit1(text, i), LAMBDA first :
        IF ~first.ok THEN PErr(i)
        ELSE Bind(DotListLoop(text, first.pos, <<first.val>>), LAMBDA parts :
                Bind(QuestionNumber_from_str(JoinDot(parts.val)), LAMBDA q :
                    IF q.ok THEN POk(parts.pos, q.val) ELSE PErr(i))))

\* list_sep = alt((comma_and, comma, and)); multispace0 matches only the
\* four ASCII blanks
RECURSIVE multispace0(_, _)
multispace0(text, i) ==
    IF i <= Len(text) /\ text[i] \in Whitespace THEN multispace0(text, i + 1) ELSE i

\* mutant: the separator "and" without a comma is not accepted
list_sep_NoAnd(text, i) ==
    Bind(multispace0(text, i), LAMBDA a :
        Bind(multispace0(text, a + 1), LAMBDA b :
            LET isComma == a <= Len(text) /\ text[a] = ","
            IN IF isComma /\ TagAt(AndTag, text, b)
               THEN POk(multispace0(text, b + Len(AndTag)), <<>>)
               ELSE IF isComma THEN POk(b, <<>>)
               ELSE PErr(i)))

list_sep(text, i) ==
    Bind(multispace0(text, i), LAMBDA a :
        Bind(multispace0(text, a + 1), LAMBDA b :
            LET isComma == a <= Len(text) /\ text[a] = ","
            IN IF isComma /\ TagAt(AndTag, text, b)
               THEN POk(multispace0(text, b + Len(AndTag)), <<>>)
               ELSE IF isComma THEN POk(b, <<>>)
               ELSE IF TagAt(AndTag, text, a)
               THEN POk(multispace0(text, a + Len(AndTag)), <<>>)
               ELSE PErr(i)))

\* the loop of separated_list0(list_sep, question_num) after the first element
RECURSIVE NumListLoop(_, _, _)
NumListLoop(text, i, acc) ==
    Bind(list_sep(text, i), LAMBDA s :
        IF ~s.ok THEN POk(i, acc)
        ELSE IF s.pos = i THEN PErr(i)
        ELSE Bind(question_num(text, s.pos), LAMBDA q :
                IF q.ok THEN NumListLoop(text, q.pos, Append(acc, q.val))
                ELSE POk(i, acc)))

question_num_list(text, i) ==
    Bind(question_num(text, i), LAMBDA first :
        IF ~first.ok THEN POk(i, <<>>)
        ELSE NumListLoop(text, first.pos, <<first.val>>))

skip_thru_page_label(text, i) == skip_thru(PageLabelTags, text, i)

\* page = preceded(skip_thru_page_label, question_num_list)
page(text, i) ==
    Bind(skip_thru_page_label(text, i), LAMBDA l :
        IF ~l.ok THEN PErr(i) ELSE question_num_list(text, l.pos))

\* questions = many0(page), flattened
RECURSIVE questions(_, _, _)
questions(text, i, acc) ==
    Bind(page(text, i), LAMBDA p :
        IF ~p.ok THEN POk(i, acc)
        ELSE IF p.pos = i THEN PErr(i)
        ELSE questions(text, p.pos, acc \o p.val))

\* mutant: the end of the text is not required after the last page
pdf_text_NoEof(text) ==
    Bind(skip_thru(<<TotalPointsTag>>, text, 1), LAMBDA a :
        IF ~a.ok THEN PErr(1) ELSE questions(text, a.pos, <<>>))

\* pdf_text = delimited(skip_thru(tag_ws("Total Points")), questions, eof)
pdf_text(text) ==
    Bind(skip_thru(<<TotalPointsTag>>, text, 1), LAMBDA a :
        IF ~a.ok THEN PErr(1)
        ELSE Bind(questions(text, a.pos, <<>>), LAMBDA q :
                IF ~q.ok THEN q
                ELSE IF q.pos = Len(text) + 1 THEN q
                ELSE PErr(q.pos)))

\* mutant: a text the grammar rejects counts as a text that lists no question
matched_question_numbers_IgnoreFailure(text) ==
    Bind(pdf_text(text), LAMBDA r : IF r.ok THEN Ok(r.val) ELSE Ok(<<>>))

\* SubmissionPdf::matched_question_numbers
matched_question_numbers(text) ==
    Bind(pdf_text(text), LAMBDA r :
        IF r.ok THEN Ok(r.val)
        ELSE Err("could not parse question numbers from PDF text"))

(***************************************************************************)
(* The diff engine (pdf.rs): sort_unstable, dedup, binary_search, filter.  *)
(***************************************************************************)
\* insertion of x into a sorted sequence, by QnCmp
RECURSIVE SortedInsert(_, _)
SortedInsert(x, s) ==
    IF s = <<>> THEN <<x>>
    ELSE IF QnCmp(x, Head(s)) = "Greater" THEN <<Head(s)>> \o SortedInsert(x, Tail(s))
    ELSE <<x>> \o s

\* Vec::sort_unstable (the result of any correct sort under the derived Ord)
RECURSIVE sort_unstable(_)
sort_unstable(s) ==
    IF s = <<>> THEN <<>>
    ELSE Bind(sort_unstable(Tail(s)), LAMBDA sorted : SortedInsert(Head(s), sorted))

\* Vec::dedup: drops an element equal to its predecessor
RECURSIVE dedup(_)
dedup(s) ==
    IF Len(s) <= 1 THEN s
    ELSE IF s[1] = s[2] THEN dedup(Tail(s))
    ELSE <<Head(s)>> \o dedup(Tail(s))

\* slice::binary_search: TRUE for Ok(_), FALSE for Err(_); left and right are
\* 0-based as in the standard library's loop
RECURSIVE BinarySearchLoop(_, _, _, _)
BinarySearchLoop(s, x, left, right) ==
    IF left >= right THEN FALSE
    ELSE LET mid == left + ((right - left) \div 2)
             c == QnCmp(s[mid + 1], x)
         IN IF c = "Less" THEN BinarySearchLoop(s, x, mid + 1, right)
            ELSE IF c = "Greater" THEN BinarySearchLoop(s, x, left, mid)
            ELSE TRUE

binary_search(s, x) == BinarySearchLoop(s, x, 0, Len(s))

\* UnmatchedQuestion::new
UnmatchedQuestion(question) == [question |-> question]

\* the filter of unmatched_questions over the outline's questions
\* mutant: the i-th question is looked for at the i-th place of the list
FilterUnmatched_Positional(all_questions, matched) ==
    LET IsUnmatchedAt(i) == i > Len(matched) \/ matched[i] # all_questions[i].number
        idx == {i \in 1..Len(all_questions) : IsUnmatchedAt(i)}
        Nth[j \in 0..Cardinality(idx)] ==
            IF j = 0 THEN 0
            ELSE CHOOSE i \in idx : i > Nth[j - 1] /\ \A h \in idx : h > Nth[j - 1] => i <= h
    IN [j \in 1..Cardinality(idx) |-> UnmatchedQuestion(all_questions[Nth[j]])]

RECURSIVE FilterUnmatched(_, _)
FilterUnmatched(all_questions, matched) ==
    IF all_questions = <<>> THEN <<>>
    ELSE LET q == Head(all_questions)
             rest == FilterUnmatched(Tail(all_questions), matched)
         IN IF ~binary_search(matched, q.number)
            THEN <<UnmatchedQuestion(q)>> \o rest
            ELSE rest

\* mutant: the sort is left out
SortedMatched_NoSort(matched) == dedup(matched)

\* the matched list made ready for binary search
SortedMatched(matched) == dedup(sort_unstable(matched))

\* SubmissionPdf::unmatched_questions
unmatched_questions(pdf, all_questions) ==
    Bind(matched_question_numbers(pdf.text), LAMBDA m :
        IF ~m.ok THEN m
        ELSE Bind(SortedMatched(m.val), LAMBDA matched :
                Ok(FilterUnmatched(all_questions, matched))))

\* UnmatchedSubmission::new
UnmatchedSubmission(id, unmatched) == [id |-> id, unmatched_questions |-> unmatched]

\* mutant: the emptiness test is left out
as_unmatched_NoEmptyTest(pdf, all_questions) ==
    Bind(unmatched_questions(pdf, all_questions), LAMBDA u :
        IF ~u.ok THEN u ELSE Ok(Some(UnmatchedSubmission(pdf.submission_id, u.val))))

\* SubmissionPdf::as_unmatched
as_unmatched(pdf, all_questions) ==
    Bind(unmatched_questions(pdf, all_questions), LAMBDA u :
        IF ~u.ok THEN u
        ELSE IF u.val # <<>>
             THEN Ok(Some(UnmatchedSubmission(pdf.submission_id, u.val)))
             ELSE Ok(None))

(***************************************************************************)
(* Outline flattening (question.rs).                                       *)
(***************************************************************************)
Question(title, number) == [title |-> title, number |-> number]

\* mutant: a group does not push its index onto the prefix
RECURSIVE tree_into_questions_NoGroupIndex(_, _)
RECURSIVE FlatMapChildren_NoGroupIndex(_, _)
FlatMapChildren_NoGroupIndex(children, num_prefix) ==
    IF children = <<>> THEN <<>>
    ELSE tree_into_questions_NoGroupIndex(Head(children), num_prefix)
         \o FlatMapChildren_NoGroupIndex(Tail(children), num_prefix)

tree_into_questions_NoGroupIndex(node, num_prefix) ==
    IF node.type = "Inner"
    THEN FlatMapChildren_NoGroupIndex(node.children, num_prefix)
    ELSE <<Question(node.title, Append(num_prefix, node.index))>>

\* mutant: a leaf does not push its index onto the prefix
RECURSIVE tree_into_questions_NoLeafIndex(_, _)
RECURSIVE FlatMapChildren_NoLeafIndex(_, _)
FlatMapChildren_NoLeafIndex(children, num_prefix) ==
    IF children = <<>> THEN <<>>
    ELSE tree_into_questions_NoLeafIndex(Head(children), num_prefix)
         \o FlatMapChildren_NoLeafIndex(Tail(children), num_prefix)

tree_into_questions_NoLeafIndex(node, num_prefix) ==
    IF node.type = "Inner"
    THEN FlatMapChildren_NoLeafIndex(node.children, Append(num_prefix, node.index))
    ELSE <<Question(node.title, num_prefix)>>

RECURSIVE tree_into_questions(_, _)
RECURSIVE FlatMapChildren(_, _)
FlatMapChildren(children, num_prefix) ==
    IF children = <<>> THEN <<>>
    ELSE tree_into_questions(Head(children), num_prefix)
         \o FlatMapChildren(Tail(children), num_prefix)

\* OutlineQuestionTree::into_questions
tree_into_questions(node, num_prefix) ==
    IF node.type = "Inner"
    THEN FlatMapChildren(node.children, Append(num_prefix, node.index))
    ELSE <<Question(node.title, Append(num_prefix, node.index))>>

\* Outline::into_questions
into_questions(questions_tree) == FlatMapChildren(questions_tree, <<>>)

(***************************************************************************)
(* Roster (submission.rs) and the roster join (unmatched.rs, report.rs).   *)
(***************************************************************************)
\* SubmissionsManagerProps::id_to_student_map: a later student with the same
\* id replaces an earlier one
RECURSIVE id_to_student_map(_)
id_to_student_map(students) ==
    IF students = <<>> THEN <<>>
    ELSE LET last == students[Len(students)]
             init == id_to_student_map(SubSeq(students, 1, Len(students) - 1))
         IN [i \in (DOMAIN init) \cup {last.id} |-> IF i = last.id THEN last ELSE init[i]]

\* the filter_map over active_user_ids: students unknown to the roster are left out
RECURSIVE ActiveStudents(_, _)
ActiveStudents(active_user_ids, id_to_student) ==
    IF active_user_ids = <<>> THEN <<>>
    ELSE LET rest == ActiveStudents(Tail(active_user_ids), id_to_student)
         IN IF Head(active_user_ids) \in DOMAIN id_to_student
            THEN <<id_to_student[Head(active_user_ids)]>> \o rest
            ELSE rest

\* mutant: a submission whose key differs from its id is left out
submission_to_student_map_SkipMismatch(p) ==
    LET id_to_student == id_to_student_map(p.students)
        keys == {key \in DOMAIN p.submissions : key = p.submissions[key].id}
    IN Ok([key \in keys |->
              ActiveStudents(p.submissions[key].active_user_ids, id_to_student)])

\* SubmissionsManagerProps::submission_to_student_map
submission_to_student_map(props) ==
    LET id_to_student == id_to_student_map(props.students)
    IN IF \E key \in DOMAIN props.submissions : key # props.submissions[key].id
       THEN Err("submission has mismatching id")
       ELSE Ok([key \in DOMAIN props.submissions |->
                  ActiveStudents(props.submissions[key].active_user_ids, id_to_student)])

\* SubmissionToStudentMap::students
students(map, submission_id) ==
    IF submission_id \in DOMAIN map THEN Some(map[submission_id]) ELSE None

\* NonmatchingSubmitter::new
NonmatchingSubmitter(student, submission) == [student |-> student, submission |-> submission]

RECURSIVE MapSubmitters(_, _)
MapSubmitters(studs, submission) ==
    IF studs = <<>> THEN <<>>
    ELSE <<Ok(NonmatchingSubmitter(Head(studs), submission))>>
         \o MapSubmitters(Tail(studs), submission)

\* mutant: an unknown submission id is dropped in silence
submitters_SilentMiss(submission, map) ==
    LET found == students(map, submission.id)
    IN IF found.some THEN MapSubmitters(found.val, submission) ELSE <<>>

\* mutant: only the first student of a submission is kept
submitters_FirstOnly(submission, map) ==
    LET found == students(map, submission.id)
    IN IF ~found.some THEN <<Err("could not find students for submission")>>
       ELSE IF found.val = <<>> THEN <<>>
       ELSE MapSubmitters(<<Head(found.val)>>, submission)

\* UnmatchedSubmission::submitters
submitters(submission, map) ==
    LET found == students(map, submission.id)
    IN IF found.some THEN MapSubmitters(found.val, submission)
       ELSE <<Err("could not find students for submission")>>

\* UnmatchedReport::new
UnmatchedReport(submitter) ==
    [submission_id |-> submitter.submission.id,
     student |-> [name |-> submitter.student.name, email |-> submitter.student.email],
     unmatched |-> submitter.submission.unmatched_questions]

(***************************************************************************)
(* The archive extractor (submission_export/mod.rs).  An archive entry is  *)
(*   [hdrOk, nameOk, filename, readOk, skipOk, data]                       *)
(* where hdrOk, nameOk, readOk and skipOk say whether the zip reader's     *)
(* next_with_entry, filename decoding, read_to_end_checked and skip        *)
(* succeed on it, and data names the entry's bytes (see                    *)
(* extract_text_from_mem).                                                 *)
(***************************************************************************)
\* mutant: the suffix is tested without its dot
entry_pdf_filename_NoDot(entry) ==
    IF ~entry.nameOk THEN Some(Err("cannot decode zip entry filename"))
    ELSE IF ends_with(entry.filename, <<"p", "d", "f">>) THEN Some(Ok(entry.filename))
    ELSE None

\* mutant: every entry with a readable name is taken for a PDF
entry_pdf_filename_NoFilter(entry) ==
    IF ~entry.nameOk THEN Some(Err("cannot decode zip entry filename"))
    ELSE Some(Ok(entry.filename))

\* entry_pdf_filename: Option<Result<String>>
entry_pdf_filename(entry) ==
    IF ~entry.nameOk THEN Some(Err("cannot decode zip entry filename"))
    ELSE IF ends_with(entry.filename, PdfSuffix) THEN Some(Ok(entry.filename))
    ELSE None

\* try_read_pdf_buf: Option<Result<(String, Vec<u8>)>>
try_read_pdf_buf(entry) ==
    LET name == entry_pdf_filename(entry)
    IN IF ~name.some THEN None
       ELSE IF ~name.val.ok THEN Some(name.val)
       ELSE IF ~entry.readOk THEN Some(Err("cannot read zip entry file data"))
       ELSE Some(Ok([filename |-> name.val.val, buf |-> entry.data]))

\* Path::file_name: the last component; None for "" and for a path ending in ".."
RECURSIVE file_name(_)
file_name(path) ==
    IF path = <<>> THEN None
    ELSE IF path[Len(path)] = "/" THEN file_name(SubSeq(path, 1, Len(path) - 1))
    ELSE LET slashes == {k \in 1..Len(path) : path[k] = "/"}
             start == IF slashes = {} THEN 1
                      ELSE (CHOOSE k \in slashes : \A j \in slashes : j <= k) + 1
             name == SubSeq(path, start, Len(path))
         IN IF name = <<".">> THEN file_name(SubSeq(path, 1, start - 1))
            ELSE IF name = <<".", ".">> THEN None
            ELSE Some(name)

\* Path::file_stem: the file name up to its last ".", the whole name when it
\* has none or only a leading one
file_stem(path) ==
    LET n == file_name(path)
    IN IF ~n.some THEN None
       ELSE LET dots == {k \in 2..Len(n.val) : n.val[k] = "."}
            IN IF dots = {} THEN n
               ELSE Some(SubSeq(n.val, 1, (CHOOSE k \in dots : \A j \in dots : j <= k) - 1))

Num11 == <<"1", ".", "1">>

Num12 == <<"1", ".", "2">>

\* texts as pdf_extract returns them, blanks included
TextFull ==
    TotalPointsPhrase \o <<"\n", "2", "/", "2", "\n">> \o QuestionsLabel
    \o <<" ">> \o Num11 \o <<",", " ">> \o Num12

TextMissing12 == TotalPointsPhrase \o <<"\n">> \o QuestionLabel \o <<" ">> \o Num11

TextNoneMatched == TotalPointsPhrase \o <<"\n">> \o NoQuestionsLabel

TextNoAnchor == QuestionLabel \o <<" ">> \o Num11

\* pdf_extract::extract_text_from_mem, by the name of the bytes: the text of a
\* well-formed PDF, or an error for bytes that are no PDF
extract_text_from_mem(pdf_data) ==
    CASE pdf_data = "full" -> Ok(TextFull)
      [] pdf_data = "missing12" -> Ok(TextMissing12)
      [] pdf_data = "none" -> Ok(TextNoneMatched)
      [] pdf_data = "noanchor" -> Ok(TextNoAnchor)
      [] OTHER -> Err("PDF error")

\* SubmissionPdf::new
SubmissionPdf_new(filename, pdf_data) ==
    LET stem == file_stem(filename)
        extracted == extract_text_from_mem(pdf_data)
    IN IF ~stem.some THEN Err("cannot get PDF filename stem")
       ELSE IF ~extracted.ok THEN Err("could not parse data as PDF")
       ELSE Ok([submission_id |-> stem.val, text |-> retain_non_whitespace(extracted.val)])

\* pdf_to_submission_pdf
pdf_to_submission_pdf(filename, buf) == SubmissionPdf_new(filename, buf)

\* the closure spawned by submissions() for one item of the queue
SubmissionsTask(result) ==
    IF ~result.ok THEN result
    ELSE pdf_to_submission_pdf(result.val.filename, result.val.buf)

\* the closure spawned by unmatched() for one Result<SubmissionPdf>
UnmatchedTask(result, all_questions) ==
    IF ~result.ok THEN result ELSE as_unmatched(result.val, all_questions)

\* mutant: errors are filtered out along with the fully matched submissions
try_filter_map_DropErr(result) ==
    IF result.ok /\ result.val.some THEN <<Ok(result.val.val)>> ELSE <<>>

\* try_filter_map(|option| Ok(option)): the items it lets through
try_filter_map(result) ==
    IF ~result.ok THEN <<result>>
    ELSE IF result.val.some THEN <<Ok(result.val.val)>>
    ELSE <<>>

\* UnmatchedSubmissionStream::submitters for one item: map_ok + try_flatten
SubmittersOf(result, map) ==
    IF ~result.ok THEN <<result>> ELSE submitters(result.val, map)

\* map_ok(UnmatchedReport::new) over the items of find_unsubmitted
RECURSIVE MapOkReports(_)
MapOkReports(items) ==
    IF items = <<>> THEN <<>>
    ELSE <<IF Head(items).ok THEN Ok(UnmatchedReport(Head(items).val)) ELSE Head(items)>>
         \o MapOkReports(Tail(items))

RECURSIVE FlatMapSubmitters(_, _)
FlatMapSubmitters(items, map) ==
    IF items = <<>> THEN <<>>
    ELSE SubmittersOf(Head(items), map) \o FlatMapSubmitters(Tail(items), map)

\* what the report stream yields for one finished unmatched() task
ReportItems(result, map) == MapOkReports(FlatMapSubmitters(try_filter_map(result), map))

\* mutant: the loop goes on after a failure to read the next entry
ReaderIteration_GoOn(entry, pos) ==
    IF ~entry.hdrOk
    THEN [items |-> <<[src |-> pos, res |-> Err("cannot read next zip entry")]>>,
          continue |-> TRUE]
    ELSE LET r == try_read_pdf_buf(entry)
             first == IF r.some THEN <<[src |-> pos, res |-> r.val]>> ELSE <<>>
         IN IF entry.skipOk
            THEN [items |-> first, continue |-> TRUE]
            ELSE [items |-> first \o
                            <<[src |-> pos, res |-> Err("cannot skip to next zip entry")]>>,
                  continue |-> FALSE]

\* mutant: the loop stops at the first entry that yields an error
ReaderIteration_StopOnError(entry, pos) ==
    IF ~entry.hdrOk
    THEN [items |-> <<[src |-> pos, res |-> Err("cannot read next zip entry")]>>,
          continue |-> FALSE]
    ELSE LET r == try_read_pdf_buf(entry)
             first == IF r.some THEN <<[src |-> pos, res |-> r.val]>> ELSE <<>>
         IN IF entry.skipOk
            THEN [items |-> first, continue |-> ~(r.some /\ ~r.val.ok)]
            ELSE [items |-> first \o
                            <<[src |-> pos, res |-> Err("cannot skip to next zip entry")]>>,
                  continue |-> FALSE]

\* one iteration of the reader thread's loop on the entry at position pos:
\* the items it sends, in order, and whether the loop goes on
ReaderIteration(entry, pos) ==
    IF ~entry.hdrOk
    THEN [items |-> <<[src |-> pos, res |-> Err("cannot read next zip entry")]>>,
          continue |-> FALSE]
    ELSE LET r == try_read_pdf_buf(entry)
             first == IF r.some THEN <<[src |-> pos, res |-> r.val]>> ELSE <<>>
         IN IF entry.skipOk
            THEN [items |-> first, continue |-> TRUE]
            ELSE [items |-> first \o
                            <<[src |-> pos, res |-> Err("cannot skip to next zip entry")]>>,
                  continue |-> FALSE]

(***************************************************************************)
(* Bounds and inputs.                                                      *)
(***************************************************************************)
\* longest archive, in entries
MaxEntries == 3

\* buffer_unordered(16) of submissions() and of unmatched()
BufferLimit == 16

Chars(n) == <<Digits[n + 1]>>

PdfName(n) == <<"e", "/">> \o Chars(n) \o PdfSuffix

MetadataName == <<"e", "/", "m", ".", "y", "m", "l">>

GoodEntry(filename, data) ==
    [hdrOk |-> TRUE, nameOk |-> TRUE, filename |-> filename,
     readOk |-> TRUE, skipOk |-> TRUE, data |-> data]

\* the entries of a submission export, in the export's order
ExportEntries ==
    << GoodEntry(PdfName(1), "missing12"),
       GoodEntry(PdfName(2), "full"),
       GoodEntry(PdfName(3), "none"),
       GoodEntry(PdfName(4), "missing12"),
       GoodEntry(PdfName(5), "missing12"),
       GoodEntry(PdfName(6), "corrupt"),
       GoodEntry(PdfName(7), "noanchor"),
       GoodEntry(MetadataName, "yaml") >>

\* strictly monotone index maps 1..k -> 1..n
Monotone(k, n) ==
    {f \in [1..k -> 1..n] :
        \/ \A i \in 1..(k - 1) : f[i] < f[i + 1]
        \/ \A i \in 1..(k - 1) : f[i] > f[i + 1]}

\* the archives of the pipeline: at most MaxEntries entries of the export,
\* in the export's order or in the reverse order (the worker stages complete
\* in any order, whatever the order of the archive)
Archives ==
    UNION { {[i \in 1..k |-> ExportEntries[f[i]]] : f \in Monotone(k, Len(ExportEntries))}
            : k \in 0..MaxEntries }

\* sequences of pairwise different elements of S, of length at most n
DistinctSeqs(S, n) ==
    UNION { {a \in [1..k -> S] : \A i, j \in 1..k : i # j => a[i] # a[j]} : k \in 0..n }

Student(n, name) == [id |-> n, name |-> name, email |-> name]

\* the submissions metadata of the course: submission 3 is a group
\* submission, the submitter of submission 4 has left the roster, and
\* submission 5 is unknown
CourseProps ==
    [students |-> <<Student(1, "alice"), Student(2, "bob"), Student(3, "carol")>>,
     submissions |->
        [key \in {Chars(1), Chars(2), Chars(3), Chars(4)} |->
            [id |-> key,
             active_user_ids |-> IF key = Chars(1) THEN <<1>>
                                 ELSE IF key = Chars(2) THEN <<2>>
                                 ELSE IF key = Chars(3) THEN <<2, 3>>
                                 ELSE <<9>>]]]

Leaf(index, title) == [type |-> "Leaf", index |-> index, title |-> title]

Inner(index, children) == [type |-> "Inner", index |-> index, children |-> children]

\* the outline: question 1 with parts 1.1 and 1.2
CourseOutline == <<Inner(1, <<Leaf(1, "a"), Leaf(2, "b")>>)>>

(***************************************************************************)
(* State.                                                                  *)
(***************************************************************************)
VARIABLES
    archive,        \* the zip archive: a sequence of entries
    props,          \* the submissions metadata fetched for the assignment
    outline,        \* the outline fetched for the assignment
    phase,          \* "start" | "streaming" | "failed" | "dropped" | "off"
    all_questions,  \* the flattened outline, shared by the unmatched() tasks
    roster,         \* the SubmissionToStudentMap
    zipPos,         \* the entry the reader thread is at
    reader,         \* "idle" | "running" | "done" | "panicked"
    sent,           \* every item the reader has put on the queue, in order
    received,       \* how many of them submissions() has taken off the queue
    pdfTasks,       \* in-flight tasks of submissions(): indices into sent
    unmTasks,       \* in-flight tasks of unmatched(): [k, res]
    report,         \* the items the report stream has yielded: [k, item]
    fnIn,           \* input of the pure function under check
    fnOut           \* its result

vars == <<archive, props, outline, phase, all_questions, roster, zipPos, reader,
          sent, received, pdfTasks, unmTasks, report, fnIn, fnOut>>

inputVars == <<archive, props, outline>>

pureVars == <<fnIn, fnOut>>

Init ==
    /\ archive \in Archives
    /\ props = CourseProps
    /\ outline = CourseOutline
    /\ phase = "start"
    /\ all_questions = <<>>
    /\ roster = <<>>
    /\ zipPos = 1
    /\ reader = "idle"
    /\ sent = <<>>
    /\ received = 0
    /\ pdfTasks = {}
    /\ unmTasks = {}
    /\ report = <<>>
    /\ fnIn = [kind |-> "none"]
    /\ fnOut = [done |-> FALSE]

\* find_unsubmitted: try_join3 of opening the export, the roster and the
\* outline; on success the stream is built and the reader thread started
FindUnsubmitted ==
    /\ phase = "start"
    /\ \E fetched \in BOOLEAN :
         LET map == submission_to_student_map(props)
         IN IF fetched /\ map.ok
            THEN /\ phase' = "streaming"
                 /\ roster' = map.val
                 /\ all_questions' = into_questions(outline)
                 /\ reader' = "running"
            ELSE /\ phase' = "failed"
                 /\ UNCHANGED <<roster, all_questions, reader>>
    /\ UNCHANGED <<inputVars, zipPos, sent, received, pdfTasks, unmTasks, report, pureVars>>

\* mutant: the queue is a stack, the newest item leaves first
ReaderStep_Stack ==
    /\ reader = "running"
    /\ IF zipPos > Len(archive)
       THEN /\ reader' = "done"
            /\ UNCHANGED <<sent, zipPos>>
       ELSE LET it == ReaderIteration(archive[zipPos], zipPos)
            IN /\ sent' = SubSeq(sent, 1, received) \o it.items
                           \o SubSeq(sent, received + 1, Len(sent))
               /\ IF it.continue
                  THEN zipPos' = zipPos + 1 /\ UNCHANGED reader
                  ELSE reader' = "done" /\ UNCHANGED zipPos
    /\ UNCHANGED <<inputVars, phase, all_questions, roster, received, pdfTasks,
                   unmTasks, report, pureVars>>

\* mutant: the queue holds one item; the reader waits for the consumer
ReaderStep_Rendezvous ==
    /\ reader = "running"
    /\ received = Len(sent)
    /\ IF zipPos > Len(archive)
       THEN /\ reader' = "done"
            /\ UNCHANGED <<sent, zipPos>>
       ELSE LET it == ReaderIteration(archive[zipPos], zipPos)
            IN /\ sent' = sent \o it.items
               /\ IF it.continue
                  THEN zipPos' = zipPos + 1 /\ UNCHANGED reader
                  ELSE reader' = "done" /\ UNCHANGED zipPos
    /\ UNCHANGED <<inputVars, phase, all_questions, roster, received, pdfTasks,
                   unmTasks, report, pureVars>>

\* submission_pdf_bufs: one iteration of the reader thread's loop
ReaderStep ==
    /\ reader = "running"
    /\ IF zipPos > Len(archive)
       THEN /\ reader' = "done"
            /\ UNCHANGED <<sent, zipPos>>
       ELSE LET it == ReaderIteration(archive[zipPos], zipPos)
            IN IF phase = "dropped" /\ it.items # <<>>
               THEN \* feed() on the closed queue is an Err and unwrap() panics
                    /\ reader' = "panicked"
                    /\ UNCHANGED <<sent, zipPos>>
               ELSE /\ sent' = sent \o it.items
                    /\ IF it.continue
                       THEN zipPos' = zipPos + 1 /\ UNCHANGED reader
                       ELSE reader' = "done" /\ UNCHANGED zipPos
    /\ UNCHANGED <<inputVars, phase, all_questions, roster, received, pdfTasks,
                   unmTasks, report, pureVars>>

\* mutant: every queued item is spawned at once, without a limit
SubmissionsPoll_Unbounded ==
    /\ phase = "streaming"
    /\ received < Len(sent)
    /\ received' = received + 1
    /\ pdfTasks' = pdfTasks \cup {received + 1}
    /\ UNCHANGED <<inputVars, phase, all_questions, roster, zipPos, reader, sent,
                   unmTasks, report, pureVars>>

\* submissions(): buffer_unordered takes the next item off the queue and
\* spawns its task
SubmissionsPoll ==
    /\ phase = "streaming"
    /\ received < Len(sent)
    /\ Cardinality(pdfTasks) < BufferLimit
    /\ received' = received + 1
    /\ pdfTasks' = pdfTasks \cup {received + 1}
    /\ UNCHANGED <<inputVars, phase, all_questions, roster, zipPos, reader, sent,
                   unmTasks, report, pureVars>>

\* mutant: the completed task stays in the buffer and completes again
PdfTaskDoneOf_Again(k) ==
    /\ Cardinality(unmTasks) < BufferLimit
    /\ k \in pdfTasks
    /\ \E res \in {SubmissionsTask(sent[k].res)} :
          unmTasks' = unmTasks \cup {[k |-> k, res |-> res]}
    /\ UNCHANGED <<inputVars, phase, all_questions, roster, zipPos, reader, sent,
                   received, report, pureVars, pdfTasks>>

\* the task of submissions() for the k-th item of the queue completes and
\* unmatched() spawns its own task on the result
PdfTaskDoneOf(k) ==
    /\ Cardinality(unmTasks) < BufferLimit
    /\ k \in pdfTasks
    /\ pdfTasks' = pdfTasks \ {k}
    /\ \E res \in {SubmissionsTask(sent[k].res)} :
          unmTasks' = unmTasks \cup {[k |-> k, res |-> res]}
    /\ UNCHANGED <<inputVars, phase, all_questions, roster, zipPos, reader, sent,
                   received, report, pureVars>>

\* a task of submissions() completes, in any order
PdfTaskDone == \E k \in pdfTasks : PdfTaskDoneOf(k)

TagItems(k, items) == [i \in 1..Len(items) |-> [k |-> k, item |-> items[i]]]

\* mutant: the items of a task that completes after a later one are dropped
UnmatchedTaskDoneOf_DropLate(t) ==
    /\ t \in unmTasks
    /\ unmTasks' = unmTasks \ {t}
    /\ \E r \in {UnmatchedTask(t.res, all_questions)} :
       \E items \in {ReportItems(r, roster)} :
          report' = IF \E i \in 1..Len(report) : report[i].k > t.k
                    THEN report
                    ELSE report \o TagItems(t.k, items)
    /\ UNCHANGED <<inputVars, phase, all_questions, roster, zipPos, reader, sent,
                   received, pdfTasks, pureVars>>

\* the task t of unmatched() completes; its result goes through
\* try_filter_map, submitters and map_ok to the consumer
UnmatchedTaskDoneOf(t) ==
    /\ t \in unmTasks
    /\ unmTasks' = unmTasks \ {t}
    /\ \E r \in {UnmatchedTask(t.res, all_questions)} :
       \E items \in {ReportItems(r, roster)} :
          report' = report \o TagItems(t.k, items)
    /\ UNCHANGED <<inputVars, phase, all_questions, roster, zipPos, reader, sent,
                   received, pdfTasks, pureVars>>

\* a task of unmatched() completes, in any order
UnmatchedTaskDone == \E t \in unmTasks : UnmatchedTaskDoneOf(t)

Next ==
    \/ FindUnsubmitted
    \/ ReaderStep
    \/ SubmissionsPoll
    \/ PdfTaskDone
    \/ UnmatchedTaskDone

Spec == Init /\ [][Next]_vars

(***************************************************************************)
(* The running stream with a reader thread that makes progress: it is an   *)
(* OS thread of its own, and the reads of the archive complete.  Nothing   *)
(* is assumed of the consumer.                                             *)
(***************************************************************************)
\* full archives: runs of consecutive entries of the export
LiveArchives ==
    { [i \in 1..MaxEntries |-> ExportEntries[i + o]] :
        o \in {0, 2, Len(ExportEntries) - MaxEntries} }

InitLive ==
    /\ archive \in LiveArchives
    /\ props = CourseProps
    /\ outline = CourseOutline
    /\ phase = "streaming"
    /\ all_questions = into_questions(CourseOutline)
    /\ roster = submission_to_student_map(CourseProps).val
    /\ zipPos = 1
    /\ reader = "running"
    /\ sent = <<>>
    /\ received = 0
    /\ pdfTasks = {}
    /\ unmTasks = {}
    /\ report = <<>>
    /\ fnIn = [kind |-> "none"]
    /\ fnOut = [done |-> FALSE]

NextLive ==
    \/ ReaderStep
    \/ SubmissionsPoll
    \/ PdfTaskDone
    \/ UnmatchedTaskDone

SpecLive == InitLive /\ [][NextLive]_vars /\ WF_vars(ReaderStep)

(***************************************************************************)
(* The extractor alone: the reader thread and a consumer taking items off  *)
(* the queue, over archives whose entries fail in every way the zip reader *)
(* can fail.                                                               *)
(***************************************************************************)
NotPdfName == <<"e", "/", "a", "p", "d", "f">>

FaultyEntries ==
    { GoodEntry(PdfName(1), "full"),
      GoodEntry(MetadataName, "yaml"),
      GoodEntry(NotPdfName, "text"),
      [GoodEntry(PdfName(2), "full") EXCEPT !.hdrOk = FALSE],
      [GoodEntry(PdfName(3), "full") EXCEPT !.nameOk = FALSE],
      [GoodEntry(PdfName(4), "full") EXCEPT !.readOk = FALSE],
      [GoodEntry(PdfName(5), "full") EXCEPT !.readOk = FALSE, !.skipOk = FALSE],
      [GoodEntry(MetadataName, "yaml") EXCEPT !.skipOk = FALSE],
      [GoodEntry(PdfName(6), "full") EXCEPT !.skipOk = FALSE] }

InitExtract ==
    /\ archive \in DistinctSeqs(FaultyEntries, MaxEntries)
    /\ props = CourseProps
    /\ outline = CourseOutline
    /\ phase = "streaming"
    /\ all_questions = <<>>
    /\ roster = <<>>
    /\ zipPos = 1
    /\ reader = "running"
    /\ sent = <<>>
    /\ received = 0
    /\ pdfTasks = {}
    /\ unmTasks = {}
    /\ report = <<>>
    /\ fnIn = [kind |-> "none"]
    /\ fnOut = [done |-> FALSE]

NextExtract ==
    \/ ReaderStep
    \/ SubmissionsPoll

SpecExtract == InitExtract /\ [][NextExtract]_vars

(***************************************************************************)
(* Cancellation: the consumer drops the stream of submissions() at any     *)
(* moment.  The receiver end of the queue goes with it; the reader thread  *)
(* is detached and keeps running.                                          *)
(***************************************************************************)
\* the stream is dropped: the queue is closed and what it held is freed,
\* the results of the tasks in flight are discarded
DropStream ==
    /\ phase = "streaming"
    /\ phase' = "dropped"
    /\ pdfTasks' = {}
    /\ unmTasks' = {}
    /\ UNCHANGED <<inputVars, all_questions, roster, zipPos, reader, sent, received,
                   report, pureVars>>

NextCancel ==
    \/ ReaderStep
    \/ SubmissionsPoll
    \/ DropStream

SpecCancel == InitExtract /\ [][NextCancel]_vars

(***************************************************************************)
(* The diff engine alone: as_unmatched applied to an outline and to the    *)
(* text of a PDF that lists given question numbers.                        *)
(***************************************************************************)
\* longest outline, in questions
MaxOutline == 3

\* longest list of matched numbers
MaxMatched == 2

QNums == {<<1>>, <<2>>, <<1, 1>>, <<12>>}

SeqsUpTo(S, n) == UNION {[1..k -> S] : k \in 0..n}

\* outlines: questions with pairwise different numbers
OutlineLists ==
    { [i \in 1..Len(ns) |-> Question("t", ns[i])] : ns \in DistinctSeqs(QNums, MaxOutline) }

MatchedLists == SeqsUpTo(QNums, MaxMatched)

RECURSIVE JoinComma(_)
JoinComma(nums) ==
    IF nums = <<>> THEN <<>>
    ELSE IF Len(nums) = 1 THEN QuestionNumber_display(nums[1])
    ELSE QuestionNumber_display(Head(nums)) \o <<",">> \o JoinComma(Tail(nums))

\* the text of a PDF (blanks already removed) with a page that lists the
\* numbers and a page with no question
PdfTextListing(matched, anchor) ==
    (IF anchor THEN TotalPointsTag ELSE <<>>)
    \o (IF matched = <<>> THEN <<>> ELSE tag_ws(QuestionsLabel) \o JoinComma(matched))
    \o <<"x">> \o tag_ws(NoQuestionsLabel)

InitDiff ==
    /\ fnIn \in [kind : {"diff"}, all_questions : OutlineLists,
                 matched : MatchedLists, anchor : BOOLEAN]
    /\ fnOut = [done |-> FALSE]
    /\ archive = <<>>
    /\ props = CourseProps
    /\ outline = CourseOutline
    /\ phase = "off"
    /\ all_questions = <<>>
    /\ roster = <<>>
    /\ zipPos = 1
    /\ reader = "idle"
    /\ sent = <<>>
    /\ received = 0
    /\ pdfTasks = {}
    /\ unmTasks = {}
    /\ report = <<>>

\* as_unmatched on a SubmissionPdf with the listed text, and what unmatched()
\* lets through of its result
ApplyAsUnmatched ==
    /\ fnIn.kind = "diff"
    /\ ~fnOut.done
    /\ \E pdf \in {[submission_id |-> Chars(1),
                    text |-> PdfTextListing(fnIn.matched, fnIn.anchor)]} :
       \E r \in {UnmatchedTask(Ok(pdf), fnIn.all_questions)} :
          fnOut' = [done |-> TRUE,
                    matched |-> matched_question_numbers(pdf.text),
                    unmatched |-> unmatched_questions(pdf, fnIn.all_questions),
                    result |-> r,
                    items |-> try_filter_map(r),
                    reported |-> ReportItems(r, submission_to_student_map(props).val)]
    /\ UNCHANGED <<inputVars, phase, all_questions, roster, zipPos, reader, sent,
                   received, pdfTasks, unmTasks, report, fnIn>>

NextDiff == ApplyAsUnmatched

SpecDiff == InitDiff /\ [][NextDiff]_vars

(***************************************************************************)
(* The diff engine on two PDFs that list the same numbers, the second in   *)
(* another order or with repetitions.                                      *)
(***************************************************************************)
Reverse(seq) == [i \in 1..Len(seq) |-> seq[Len(seq) + 1 - i]]

\* lists with the same numbers as matched
Rearrangements(matched) ==
    { Reverse(matched),
      matched \o matched,
      Reverse(matched) \o matched }

InitDiffPair ==
    /\ \E aq \in OutlineLists, m \in MatchedLists :
         \E o \in Rearrangements(m) :
            fnIn = [kind |-> "pair", all_questions |-> aq, matched |-> m, other |-> o]
    /\ fnOut = [done |-> FALSE]
    /\ archive = <<>>
    /\ props = CourseProps
    /\ outline = CourseOutline
    /\ phase = "off"
    /\ all_questions = <<>>
    /\ roster = <<>>
    /\ zipPos = 1
    /\ reader = "idle"
    /\ sent = <<>>
    /\ received = 0
    /\ pdfTasks = {}
    /\ unmTasks = {}
    /\ report = <<>>

\* unmatched_questions on the two PDFs, against the same outline
ApplyUnmatchedQuestions ==
    /\ fnIn.kind = "pair"
    /\ ~fnOut.done
    /\ \E first \in {unmatched_questions([submission_id |-> Chars(1),
                                           text |-> PdfTextListing(fnIn.matched, TRUE)],
                                          fnIn.all_questions)} :
       \E second \in {unmatched_questions([submission_id |-> Chars(1),
                                            text |-> PdfTextListing(fnIn.other, TRUE)],
                                           fnIn.all_questions)} :
          fnOut' = [done |-> TRUE, first |-> first, second |-> second]
    /\ UNCHANGED <<inputVars, phase, all_questions, roster, zipPos, reader, sent,
                   received, pdfTasks, unmTasks, report, fnIn>>

NextDiffPair == ApplyUnmatchedQuestions

SpecDiffPair == InitDiffPair /\ [][NextDiffPair]_vars

(***************************************************************************)
(* The worker stages under load: an archive of more PDFs than the two      *)
(* stages can hold.  The PDFs are copies of one another, so which task of  *)
(* a stage completes makes no difference to what follows: the one spawned  *)
(* first does.                                                             *)
(***************************************************************************)
PoolEntries == 2 * BufferLimit + 1

InitPool ==
    /\ archive = [i \in 1..PoolEntries |-> GoodEntry(PdfName(1), "full")]
    /\ props = CourseProps
    /\ outline = CourseOutline
    /\ phase = "streaming"
    /\ all_questions = into_questions(CourseOutline)
    /\ roster = submission_to_student_map(CourseProps).val
    /\ zipPos = 1
    /\ reader = "running"
    /\ sent = <<>>
    /\ received = 0
    /\ pdfTasks = {}
    /\ unmTasks = {}
    /\ report = <<>>
    /\ fnIn = [kind |-> "none"]
    /\ fnOut = [done |-> FALSE]

PoolPdfTaskDone ==
    \E k \in pdfTasks : (\A j \in pdfTasks : k <= j) /\ PdfTaskDoneOf(k)

PoolUnmatchedTaskDone ==
    \E t \in unmTasks : (\A u \in unmTasks : t.k <= u.k) /\ UnmatchedTaskDoneOf(t)

NextPool ==
    \/ ReaderStep
    \/ SubmissionsPoll
    \/ PoolPdfTaskDone
    \/ PoolUnmatchedTaskDone

SpecPool == InitPool /\ [][NextPool]_vars

(***************************************************************************)
(* The grammar alone: pdf_text applied to documents made of the anchor and *)
(* of pages, with or without filler between them and after the last one.   *)
(***************************************************************************)
\* most pages of a document
MaxPages == 2

\* text that belongs to no label and no list
Filler == <<".", ".", ".">>

\* a page: the label (an index of PageLabelTags), the numbers listed after
\* it and the separators between them
DocPage(label, nums, seps) == [label |-> label, nums |-> nums, seps |-> seps]

Comma == <<",">>

CommaAnd == <<",", "a", "n", "d">>

DocPages ==
    { DocPage(1, <<<<1>>, <<2>>, <<3>>>>, <<Comma, CommaAnd>>),
      DocPage(1, <<<<1>>, <<2>>>>, <<AndTag>>),
      DocPage(1, <<<<12>>, <<1, 1>>>>, <<Comma>>),
      DocPage(2, <<<<2, 1>>>>, <<>>),
      DocPage(2, <<>>, <<>>),
      DocPage(3, <<>>, <<>>),
      DocPage(3, <<<<3>>>>, <<>>) }

\* what may follow the last page's list
Trailings == {<<>>, Filler, Comma}

RECURSIVE RenderList(_, _)
RenderList(nums, seps) ==
    IF nums = <<>> THEN <<>>
    ELSE IF Len(nums) = 1 THEN QuestionNumber_display(nums[1])
    ELSE QuestionNumber_display(Head(nums)) \o Head(seps) \o RenderList(Tail(nums), Tail(seps))

RECURSIVE RenderPages(_, _)
RenderPages(pages, filler) ==
    IF pages = <<>> THEN <<>>
    ELSE (IF filler THEN Filler ELSE <<>>)
         \o PageLabelTags[Head(pages).label]
         \o RenderList(Head(pages).nums, Head(pages).seps)
         \o RenderPages(Tail(pages), filler)

\* the whitespace-stripped text of a document
DocText(doc) ==
    Filler \o TotalPointsTag \o RenderPages(doc.pages, doc.filler) \o doc.trailing

InitGrammar ==
    /\ fnIn \in [kind : {"grammar"}, pages : SeqsUpTo(DocPages, MaxPages),
                 filler : BOOLEAN, trailing : Trailings]
    /\ fnOut = [done |-> FALSE]
    /\ archive = <<>>
    /\ props = CourseProps
    /\ outline = CourseOutline
    /\ phase = "off"
    /\ all_questions = <<>>
    /\ roster = <<>>
    /\ zipPos = 1
    /\ reader = "idle"
    /\ sent = <<>>
    /\ received = 0
    /\ pdfTasks = {}
    /\ unmTasks = {}
    /\ report = <<>>

\* pdf_text and matched_question_numbers on the document's text
ApplyPdfText ==
    /\ fnIn.kind = "grammar"
    /\ ~fnOut.done
    /\ \E text \in {DocText(fnIn)} :
       \E r \in {pdf_text(text)} :
          fnOut' = [done |-> TRUE,
                    ok |-> r.ok,
                    val |-> IF r.ok THEN r.val ELSE <<>>,
                    matched |-> matched_question_numbers(text)]
    /\ UNCHANGED <<inputVars, phase, all_questions, roster, zipPos, reader, sent,
                   received, pdfTasks, unmTasks, report, fnIn>>

NextGrammar == ApplyPdfText

SpecGrammar == InitGrammar /\ [][NextGrammar]_vars

(***************************************************************************)
(* The list parser alone: question_num_list applied to a list of numbers   *)
(* joined by separators and followed by text that is no number.            *)
(***************************************************************************)
\* longest list, in numbers
MaxList == 3

ListNums == {<<1>>, <<2>>, <<3>>, <<12, 1>>}

ListSeps == {Comma, CommaAnd, AndTag}

\* what follows the list: nothing, a separator, or other text
ListTails == {<<>>, Comma, CommaAnd, AndTag, Filler}

InitList ==
    /\ \E nums \in SeqsUpTo(ListNums, MaxList) :
         \E seps \in [1..(IF nums = <<>> THEN 0 ELSE Len(nums) - 1) -> ListSeps] :
            \E tail \in ListTails :
               fnIn = [kind |-> "list", nums |-> nums, seps |-> seps, tail |-> tail]
    /\ fnOut = [done |-> FALSE]
    /\ archive = <<>>
    /\ props = CourseProps
    /\ outline = CourseOutline
    /\ phase = "off"
    /\ all_questions = <<>>
    /\ roster = <<>>
    /\ zipPos = 1
    /\ reader = "idle"
    /\ sent = <<>>
    /\ received = 0
    /\ pdfTasks = {}
    /\ unmTasks = {}
    /\ report = <<>>

\* question_num_list on the text that starts right after a page label
ApplyQuestionNumList ==
    /\ fnIn.kind = "list"
    /\ ~fnOut.done
    /\ \E text \in {RenderList(fnIn.nums, fnIn.seps) \o fnIn.tail} :
       \E res \in {question_num_list(text, 1)} :
          fnOut' = [done |-> TRUE, text |-> text, res |-> res]
    /\ UNCHANGED <<inputVars, phase, all_questions, roster, zipPos, reader, sent,
                   received, pdfTasks, unmTasks, report, fnIn>>

NextList == ApplyQuestionNumList

SpecList == InitList /\ [][NextList]_vars

(***************************************************************************)
(* QuestionNumber alone: comparison, sort and search, Display and FromStr  *)
(* on pairs of numbers.                                                    *)
(***************************************************************************)
\* most components of a question number
MaxDepth == 2

\* the components: small indices and the largest NonZeroU8
Indices == {1, 2, 3, U8Max}

\* the question numbers the program builds: at least one component
QValues == UNION {[1..k -> Indices] : k \in 1..MaxDepth}

InitNumber ==
    /\ fnIn \in [kind : {"number"}, a : QValues, b : QValues]
    /\ fnOut = [done |-> FALSE]
    /\ archive = <<>>
    /\ props = CourseProps
    /\ outline = CourseOutline
    /\ phase = "off"
    /\ all_questions = <<>>
    /\ roster = <<>>
    /\ zipPos = 1
    /\ reader = "idle"
    /\ sent = <<>>
    /\ received = 0
    /\ pdfTasks = {}
    /\ unmTasks = {}
    /\ report = <<>>

\* cmp, the diff engine's sort, dedup and binary_search, and to_string
\* followed by from_str
ApplyNumber ==
    /\ fnIn.kind = "number"
    /\ ~fnOut.done
    /\ \E text \in {QuestionNumber_display(fnIn.a)} :
       \E sorted \in {sort_unstable(<<fnIn.a, fnIn.b>>)} :
          fnOut' = [done |-> TRUE,
                    cmp |-> QnCmp(fnIn.a, fnIn.b),
                    rev |-> QnCmp(fnIn.b, fnIn.a),
                    sorted |-> sorted,
                    searchable |-> dedup(sorted),
                    text |-> text,
                    parsed |-> QuestionNumber_from_str(text)]
    /\ UNCHANGED <<inputVars, phase, all_questions, roster, zipPos, reader, sent,
                   received, pdfTasks, unmTasks, report, fnIn>>

NextNumber == ApplyNumber

SpecNumber == InitNumber /\ [][NextNumber]_vars

(***************************************************************************)
(* QuestionNumber from text: from_str and the grammar's question_num       *)
(* applied to short strings of digits, dots and signs, and the outline     *)
(* flattening applied to outlines with the least and the greatest index.   *)
(***************************************************************************)
\* longest string, in characters
MaxText == 4

TextChars == {"0", "1", "2", "5", "6", "+", "."}

ExtremeOutlines ==
    { <<Inner(U8Max, <<Leaf(1, "a"), Leaf(U8Max, "b")>>), Inner(1, <<>>), Leaf(U8Max, "c")>> }

InitText ==
    /\ fnIn \in [kind : {"text"}, text : SeqsUpTo(TextChars, MaxText), tree : ExtremeOutlines]
    /\ fnOut = [done |-> FALSE]
    /\ archive = <<>>
    /\ props = CourseProps
    /\ outline = CourseOutline
    /\ phase = "off"
    /\ all_questions = <<>>
    /\ roster = <<>>
    /\ zipPos = 1
    /\ reader = "idle"
    /\ sent = <<>>
    /\ received = 0
    /\ pdfTasks = {}
    /\ unmTasks = {}
    /\ report = <<>>

\* QuestionNumber::from_str and question_num on the text, into_questions on
\* the outline
ApplyFromStr ==
    /\ fnIn.kind = "text"
    /\ ~fnOut.done
    /\ \E parsed \in {QuestionNumber_from_str(fnIn.text)} :
       \E num \in {question_num(fnIn.text, 1)} :
          fnOut' = [done |-> TRUE, parsed |-> parsed, num |-> num,
                    questions |-> into_questions(fnIn.tree)]
    /\ UNCHANGED <<inputVars, phase, all_questions, roster, zipPos, reader, sent,
                   received, pdfTasks, unmTasks, report, fnIn>>

NextText == ApplyFromStr

SpecText == InitText /\ [][NextText]_vars

(***************************************************************************)
(* The structured strategy (export_submissions.rs): the kind of a page     *)
(* that comes after the assignment summary.  A page is                     *)
(*   [resOk, fonts, logo, opsOk, texts]                                    *)
(* where resOk and opsOk say whether its resources and its content stream  *)
(* can be read, fonts whether its resources hold a font, logo whether its  *)
(* XObjects hold the Gradescope logo, and texts are the strings of its     *)
(* text-drawing operators, in order.                                       *)
(***************************************************************************)
\* types::QuestionNumber::from_str, the same code as question.rs
types_QuestionNumber_from_str(s) == QuestionNumber_from_str(s)

RECURSIVE trim_start(_)
trim_start(s) ==
    IF s # <<>> /\ Head(s) \in Whitespace THEN trim_start(Tail(s)) ELSE s

RECURSIVE trim_end(_)
trim_end(s) ==
    IF s # <<>> /\ s[Len(s)] \in Whitespace THEN trim_end(SubSeq(s, 1, Len(s) - 1)) ELSE s

\* str::trim
trim(s) == trim_end(trim_start(s))

has_no_fonts(pg) == IF ~pg.resOk THEN Err("PdfError") ELSE Ok(~pg.fonts)

has_gradescope_logo(pg) == IF ~pg.resOk THEN Err("PdfError") ELSE Ok(pg.logo)

\* mutant: a student page must have neither fonts nor the logo
is_student_submission_page_Both(pg) ==
    LET nf == has_no_fonts(pg)
    IN IF ~nf.ok THEN nf
       ELSE IF ~nf.val THEN Ok(FALSE)
       ELSE LET logo == has_gradescope_logo(pg)
            IN IF ~logo.ok THEN logo ELSE Ok(~logo.val)

\* has_no_fonts(page)? || !has_gradescope_logo(page)?
is_student_submission_page(pg) ==
    LET nf == has_no_fonts(pg)
    IN IF ~nf.ok THEN nf
       ELSE IF nf.val THEN Ok(TRUE)
       ELSE LET logo == has_gradescope_logo(pg)
            IN IF ~logo.ok THEN logo ELSE Ok(~logo.val)

page_ops_text(pg) == IF ~pg.opsOk THEN Err("PdfError") ELSE Ok(pg.texts)

get_number_of_question_summary(pg) ==
    LET texts == page_ops_text(pg)
    IN IF ~texts.ok THEN texts
       ELSE IF texts.val = <<>> THEN Err("No text on question summary page")
       ELSE LET question_number == types_QuestionNumber_from_str(trim(Head(texts.val)))
            IN IF ~question_number.ok THEN Err("could not parse question number")
               ELSE question_number

StudentSubmission == [kind |-> "StudentSubmission"]

QuestionSummary(number) == [kind |-> "QuestionSummary", number |-> number]

post_assignment_summary_page_kind(pg) ==
    LET student == is_student_submission_page(pg)
    IN IF ~student.ok THEN student
       ELSE IF student.val THEN Ok(StudentSubmission)
       ELSE LET number == get_number_of_question_summary(pg)
            IN IF ~number.ok THEN number ELSE Ok(QuestionSummary(number.val))

\* most text-drawing operators of a page
MaxOps == 2

OpTexts ==
    { <<"1">>, <<" ", "1", ".", "2", "\n">>, <<"Q", "1">>, <<"2", " ", "3">>, <<"0">>, <<>> }

Pages ==
    [resOk : BOOLEAN, fonts : BOOLEAN, logo : BOOLEAN, opsOk : BOOLEAN,
     texts : SeqsUpTo(OpTexts, MaxOps)]

InitPage ==
    /\ fnIn \in [kind : {"page"}, page : Pages]
    /\ fnOut = [done |-> FALSE]
    /\ archive = <<>>
    /\ props = CourseProps
    /\ outline = CourseOutline
    /\ phase = "off"
    /\ all_questions = <<>>
    /\ roster = <<>>
    /\ zipPos = 1
    /\ reader = "idle"
    /\ sent = <<>>
    /\ received = 0
    /\ pdfTasks = {}
    /\ unmTasks = {}
    /\ report = <<>>

ApplyPageKind ==
    /\ fnIn.kind = "page"
    /\ ~fnOut.done
    /\ \E kind \in {post_assignment_summary_page_kind(fnIn.page)} :
          fnOut' = [done |-> TRUE, kind |-> kind]
    /\ UNCHANGED <<inputVars, phase, all_questions, roster, zipPos, reader, sent,
                   received, pdfTasks, unmTasks, report, fnIn>>

NextPage == ApplyPageKind

SpecPage == InitPage /\ [][NextPage]_vars

(***************************************************************************)
(* The structured strategy: question_matching on the kinds of the pages    *)
(* that come after the assignment summary.                                 *)
(***************************************************************************)
Matching(state, number) == [state |-> state, number |-> number]

\* mutant: submission pages are passed over, every summary is unmatched
RECURSIVE Batching_Unmatched(_)
Batching_Unmatched(kinds) ==
    IF kinds = <<>> THEN <<>>
    ELSE IF Head(kinds).kind = "StudentSubmission" THEN Batching_Unmatched(Tail(kinds))
    ELSE <<Matching("Unmatched", Head(kinds).number)>> \o Batching_Unmatched(Tail(kinds))

\* the closure given to batching, applied until it returns None; after
\* dedup a submission page is followed by a summary or by nothing
RECURSIVE Batching(_)
Batching(kinds) ==
    IF kinds = <<>> THEN <<>>
    ELSE IF Head(kinds).kind = "StudentSubmission"
    THEN IF Len(kinds) = 1 THEN <<>>
         ELSE <<Matching("Matched", kinds[2].number)>> \o Batching(Tail(Tail(kinds)))
    ELSE <<Matching("Unmatched", Head(kinds).number)>> \o Batching(Tail(kinds))

\* question_matching on the page kinds that page_kinds() has returned
question_matching(page_kinds) == Batching(dedup(page_kinds))

\* most pages after the assignment summary
MaxKinds == 4

PageKinds == {StudentSubmission, QuestionSummary(<<1>>), QuestionSummary(<<2>>)}

InitMatching ==
    /\ fnIn \in [kind : {"kinds"}, kinds : SeqsUpTo(PageKinds, MaxKinds)]
    /\ fnOut = [done |-> FALSE]
    /\ archive = <<>>
    /\ props = CourseProps
    /\ outline = CourseOutline
    /\ phase = "off"
    /\ all_questions = <<>>
    /\ roster = <<>>
    /\ zipPos = 1
    /\ reader = "idle"
    /\ sent = <<>>
    /\ received = 0
    /\ pdfTasks = {}
    /\ unmTasks = {}
    /\ report = <<>>

ApplyQuestionMatching ==
    /\ fnIn.kind = "kinds"
    /\ ~fnOut.done
    /\ \E matching \in {question_matching(fnIn.kinds)} :
          fnOut' = [done |-> TRUE, matching |-> matching]
    /\ UNCHANGED <<inputVars, phase, all_questions, roster, zipPos, reader, sent,
                   received, pdfTasks, unmTasks, report, fnIn>>

SpecMatching == InitMatching /\ [][ApplyQuestionMatching]_vars

(***************************************************************************)
(* Outline flattening alone: into_questions applied to outlines as serde   *)
(* accepts them (any index on any node, groups with or without children).  *)
(***************************************************************************)
\* most children of a group, and most top-level nodes
MaxChildren == 2

\* deepest nesting of the outlines below
MaxNesting == 3

TreeLeaves == {Leaf(i, "a") : i \in {1, 2}}

\* groups of leaves
TreeGroups == {Inner(1, cs) : cs \in SeqsUpTo(TreeLeaves, MaxChildren)}

\* groups of groups
TreeDeep ==
    { Inner(1, <<Inner(2, <<Leaf(1, "b"), Leaf(2, "c")>>), Leaf(2, "d")>>),
      Inner(2, <<Inner(1, <<>>)>>) }

Outlines == SeqsUpTo(TreeLeaves \cup TreeGroups \cup TreeDeep, MaxChildren)

InitOutline ==
    /\ fnIn \in [kind : {"outline"}, tree : Outlines]
    /\ fnOut = [done |-> FALSE]
    /\ archive = <<>>
    /\ props = CourseProps
    /\ outline = CourseOutline
    /\ phase = "off"
    /\ all_questions = <<>>
    /\ roster = <<>>
    /\ zipPos = 1
    /\ reader = "idle"
    /\ sent = <<>>
    /\ received = 0
    /\ pdfTasks = {}
    /\ unmTasks = {}
    /\ report = <<>>

\* outline.into_questions().collect_vec()
ApplyIntoQuestions ==
    /\ fnIn.kind = "outline"
    /\ ~fnOut.done
    /\ fnOut' = [done |-> TRUE, questions |-> into_questions(fnIn.tree)]
    /\ UNCHANGED <<inputVars, phase, all_questions, roster, zipPos, reader, sent,
                   received, pdfTasks, unmTasks, report, fnIn>>

NextOutline == ApplyIntoQuestions

SpecOutline == InitOutline /\ [][NextOutline]_vars

(***************************************************************************)
(* Properties of the diff engine (SpecDiff).                               *)
(***************************************************************************)
MatchedSet == {fnIn.matched[i] : i \in 1..Len(fnIn.matched)}

OutlineNumbers == {fnIn.all_questions[i].number : i \in 1..Len(fnIn.all_questions)}

NotInMatchedSet(q) == q.number \notin MatchedSet

\* the outline's questions whose number is not matched, in outline order
ExpectedUnmatched ==
    LET kept == SelectSeq(fnIn.all_questions, NotInMatchedSet)
    IN [j \in 1..Len(kept) |-> [question |-> kept[j]]]

\* C1: for an outline of N questions with distinct numbers and matched numbers
\* S, unmatched_questions returns exactly the outline questions whose number
\* is not in S, in outline order; they are N - |S| when S is a subset of the
\* outline's numbers.
C1_DiffIsOutlineMinusMatched ==
    (fnOut.done /\ fnIn.anchor) =>
        /\ fnOut.unmatched.ok
        /\ fnOut.unmatched.val = ExpectedUnmatched
        /\ \A j \in 1..Len(fnOut.unmatched.val) :
              fnOut.unmatched.val[j].question.number \notin MatchedSet
        /\ (MatchedSet \subseteq OutlineNumbers =>
              Len(fnOut.unmatched.val) = Len(fnIn.all_questions) - Cardinality(MatchedSet))

\* a three-question outline, two of its numbers matched, listed out of order
C1_Witness ==
    /\ fnOut.done /\ fnIn.anchor
    /\ Len(fnIn.all_questions) = 3
    /\ Len(fnIn.matched) = 2
    /\ QnCmp(fnIn.matched[1], fnIn.matched[2]) = "Greater"
    /\ MatchedSet \subseteq OutlineNumbers
    /\ Len(fnOut.unmatched.val) = 1

CoversOutline == fnIn.anchor /\ OutlineNumbers \subseteq MatchedSet

\* C2: as_unmatched returns Ok(None) exactly when the text parses and every
\* outline question's number is among the matched numbers; an
\* UnmatchedSubmission it returns has a nonempty question list; a submission
\* that covers the outline yields no item.
C2_NoneIffCovered ==
    fnOut.done =>
        /\ (fnOut.result.ok /\ ~fnOut.result.val.some) <=> CoversOutline
        /\ (fnOut.result.ok /\ fnOut.result.val.some) =>
              fnOut.result.val.val.unmatched_questions # <<>>
        /\ CoversOutline => fnOut.items = <<>>

\* a two-question outline covered by the matched numbers
C2_Witness ==
    /\ fnOut.done
    /\ Len(fnIn.all_questions) = 2
    /\ CoversOutline
    /\ fnOut.result.ok /\ ~fnOut.result.val.some
    /\ fnOut.items = <<>>

(***************************************************************************)
(* Properties of the pipeline (Spec).  The meaning of the inputs is        *)
(* written down independently of the operators under check.                *)
(***************************************************************************)
IsPdfEntry(entry) ==
    LET n == Len(entry.filename)
    IN n >= 4 /\ SubSeq(entry.filename, n - 3, n) = <<".", "p", "d", "f">>

\* the submission id a PDF entry "e/N.pdf" is named after
SubmissionIdOf(entry) == <<entry.filename[3]>>

\* the PDF's text can be extracted and follows the export's grammar
Parses(entry) == entry.data \in {"full", "missing12", "none"}

\* the question numbers the PDF's pages list
MatchedIn(entry) ==
    IF entry.data = "full" THEN {<<1, 1>>, <<1, 2>>}
    ELSE IF entry.data = "missing12" THEN {<<1, 1>>}
    ELSE {}

\* the questions of CourseOutline
OutlineQuestions == <<[title |-> "a", number |-> <<1, 1>>], [title |-> "b", number |-> <<1, 2>>]>>

\* the outline questions the PDF does not list, in outline order
Missing(entry) ==
    LET idx == {i \in 1..Len(OutlineQuestions) : OutlineQuestions[i].number \notin MatchedIn(entry)}
        Nth[j \in 0..Cardinality(idx)] ==
            IF j = 0 THEN 0 ELSE CHOOSE i \in idx : i > Nth[j - 1] /\ \A h \in idx : h > Nth[j - 1] => i <= h
    IN [j \in 1..Cardinality(idx) |-> [question |-> OutlineQuestions[Nth[j]]]]

InRoster(id) == id \in {<<"1">>, <<"2">>, <<"3">>, <<"4">>}

\* the students of CourseProps behind a submission id, in roster order
StudentsOf(id) ==
    IF id = <<"1">> THEN <<[name |-> "alice", email |-> "alice"]>>
    ELSE IF id = <<"2">> THEN <<[name |-> "bob", email |-> "bob"]>>
    ELSE IF id = <<"3">> THEN <<[name |-> "bob", email |-> "bob"], [name |-> "carol", email |-> "carol"]>>
    ELSE <<>>

Failed(entry) == IsPdfEntry(entry) /\ ~Parses(entry)

HasUnmatched(entry) == IsPdfEntry(entry) /\ Parses(entry) /\ Missing(entry) # <<>>

\* the records of a submission: one per student, in roster order
RecordsOf(entry) ==
    LET studs == StudentsOf(SubmissionIdOf(entry))
    IN [j \in 1..Len(studs) |->
           Ok([submission_id |-> SubmissionIdOf(entry), student |-> studs[j],
               unmatched |-> Missing(entry)])]

\* the items the report stream owes to a PDF entry
ItemsAsExpected(items, entry) ==
    IF Failed(entry) THEN Len(items) = 1 /\ ~items[1].ok
    ELSE IF Missing(entry) = <<>> THEN items = <<>>
    ELSE IF ~InRoster(SubmissionIdOf(entry)) THEN Len(items) = 1 /\ ~items[1].ok
    ELSE items = RecordsOf(entry)

\* the items the report stream has yielded for the k-th item of the queue
ItemsOf(k) ==
    LET idx == {i \in 1..Len(report) : report[i].k = k}
        Nth[j \in 0..Cardinality(idx)] ==
            IF j = 0 THEN 0 ELSE CHOOSE i \in idx : i > Nth[j - 1] /\ \A h \in idx : h > Nth[j - 1] => i <= h
    IN [j \in 1..Cardinality(idx) |-> report[Nth[j]].item]

\* the archive entry behind the k-th item of the queue
EntryOf(k) == archive[sent[k].src]

\* the k-th item of the queue has gone through every stage
Finished(k) == k \in 1..received /\ k \notin pdfTasks /\ \A t \in unmTasks : t.k # k

\* the archive is exhausted and every stage has drained
Done ==
    /\ phase = "streaming" /\ reader = "done"
    /\ received = Len(sent) /\ pdfTasks = {} /\ unmTasks = {}

\* C3: a submission whose PDF cannot be processed yields exactly one error
\* item; the stream goes on, and every other submission yields the items it
\* would yield without the failing one.
C3_FailureIsolated ==
    /\ \A k \in 1..Len(sent) :
          IF Finished(k)
          THEN /\ Failed(EntryOf(k)) => (Len(ItemsOf(k)) = 1 /\ ~ItemsOf(k)[1].ok)
               /\ ~Failed(EntryOf(k)) => ItemsAsExpected(ItemsOf(k), EntryOf(k))
          ELSE ItemsOf(k) = <<>>
    /\ Done => /\ {sent[k].src : k \in 1..Len(sent)} = {i \in 1..Len(archive) : IsPdfEntry(archive[i])}
               /\ \A k \in 1..Len(sent) : Finished(k)

\* a failing submission's error item, followed in the stream by the record
\* of a submission that comes after it in the archive
C3_Witness ==
    /\ Done
    /\ \E i, j \in 1..Len(report) :
          /\ i < j
          /\ Failed(EntryOf(report[i].k)) /\ ~report[i].item.ok
          /\ report[j].k > report[i].k /\ report[j].item.ok

RosterMiss(entry) == HasUnmatched(entry) /\ ~InRoster(SubmissionIdOf(entry))

\* C4: an unmatched submission whose id the roster does not know yields
\* exactly one error item; the unmatched submissions the roster knows are
\* still joined to their students.
C4_RosterMissIsOneError ==
    \A k \in 1..Len(sent) :
        Finished(k) =>
            /\ RosterMiss(EntryOf(k)) =>
                  ItemsOf(k) = <<Err("could not find students for submission")>>
            /\ (HasUnmatched(EntryOf(k)) /\ InRoster(SubmissionIdOf(EntryOf(k)))) =>
                  ItemsOf(k) = RecordsOf(EntryOf(k))

\* the error item of the unknown submission, followed in the stream by the
\* record of a submission that comes after it in the archive
C4_Witness ==
    /\ Done
    /\ \E i, j \in 1..Len(report) :
          /\ i < j
          /\ RosterMiss(EntryOf(report[i].k)) /\ ~report[i].item.ok
          /\ report[j].k > report[i].k /\ report[j].item.ok

\* C5: every submission with an unmatched outline question, or whose
\* processing failed, contributes at least one item to the report stream,
\* whatever the roster contains for it.
C5_NeverSilent ==
    \A k \in 1..Len(sent) :
        (Finished(k) /\ (Failed(EntryOf(k)) \/ HasUnmatched(EntryOf(k)))) => ItemsOf(k) # <<>>

\* C6: an unmatched submission the roster maps to k students yields exactly
\* k records, one per student in roster order, each with the submission's
\* id and its full list of unmatched questions.
C6_GroupFanOut ==
    \A k \in 1..Len(sent) :
        (Finished(k) /\ HasUnmatched(EntryOf(k)) /\ InRoster(SubmissionIdOf(EntryOf(k)))) =>
            LET studs == StudentsOf(SubmissionIdOf(EntryOf(k)))
                items == ItemsOf(k)
            IN /\ Len(items) = Len(studs)
               /\ \A j \in 1..Len(items) :
                     /\ items[j].ok
                     /\ items[j].val.student = studs[j]
                     /\ items[j].val.submission_id = SubmissionIdOf(EntryOf(k))
                     /\ items[j].val.unmatched = Missing(EntryOf(k))

\* the group submission of two students has yielded its two records
C6_Witness ==
    \E k \in 1..Len(sent) :
        /\ Finished(k) /\ HasUnmatched(EntryOf(k))
        /\ Len(StudentsOf(SubmissionIdOf(EntryOf(k)))) = 2
        /\ Len(ItemsOf(k)) = 2
        /\ ItemsOf(k)[1].val.student.name = "bob"
        /\ ItemsOf(k)[2].val.student.name = "carol"

\* the archive holds two PDFs and one metadata file; one PDF lists every
\* outline question but 1.2 and its id maps to one student, the other PDF
\* lists the whole outline
Deficient(i) ==
    /\ IsPdfEntry(archive[i]) /\ Parses(archive[i])
    /\ MatchedIn(archive[i]) = {<<1, 1>>}
    /\ Len(StudentsOf(SubmissionIdOf(archive[i]))) = 1

Complete(i) ==
    /\ IsPdfEntry(archive[i]) /\ Parses(archive[i])
    /\ MatchedIn(archive[i]) = {<<1, 1>>, <<1, 2>>}

Scenario(d, c, m) ==
    /\ Len(archive) = 3 /\ {d, c, m} = 1..3
    /\ Deficient(d) /\ Complete(c) /\ ~IsPdfEntry(archive[m])

\* C7: on that archive the pipeline yields exactly one record: it names the
\* submission that lacks 1.2, its student, and question 1.2 alone; both PDFs
\* are processed and the metadata file yields nothing.
C7_EndToEnd ==
    \A d, c, m \in 1..3 :
        Scenario(d, c, m) =>
            /\ Len(report) <= 1
            /\ \A i \in 1..Len(report) :
                  report[i].item =
                      Ok([submission_id |-> SubmissionIdOf(archive[d]),
                          student |-> StudentsOf(SubmissionIdOf(archive[d]))[1],
                          unmatched |-> <<[question |-> [title |-> "b", number |-> <<1, 2>>]]>>])
            /\ Done => /\ Len(report) = 1
                       /\ {sent[k].src : k \in 1..Len(sent)} = {d, c}
                       /\ Len(sent) = 2

C7_Witness ==
    /\ Done
    /\ \E d, c, m \in 1..3 : Scenario(d, c, m)
    /\ Len(report) = 1 /\ report[1].item.ok

(***************************************************************************)
(* Properties of the extractor (SpecExtract).                              *)
(***************************************************************************)
\* the reader thread has dealt with entry i
Handled(i) == i < zipPos \/ (reader = "done" /\ i = zipPos /\ i <= Len(archive))

\* the results the reader has put on the queue for entry i, in order
SentFor(i) ==
    LET idx == {k \in 1..Len(sent) : sent[k].src = i}
        Nth[j \in 0..Cardinality(idx)] ==
            IF j = 0 THEN 0 ELSE CHOOSE k \in idx : k > Nth[j - 1] /\ \A h \in idx : h > Nth[j - 1] => k <= h
    IN [j \in 1..Cardinality(idx) |-> sent[Nth[j]].res]

OkItems(items) == {j \in 1..Len(items) : items[j].ok}

\* the entry's filename cannot be decoded, or it is a PDF whose data cannot be read
DecodeOrReadFails(entry) ==
    entry.hdrOk /\ (~entry.nameOk \/ (IsPdfEntry(entry) /\ ~entry.readOk))

DecodeOrReadError(entry) ==
    IF ~entry.nameOk THEN Err("cannot decode zip entry filename")
    ELSE Err("cannot read zip entry file data")

NonPdf(entry) == entry.hdrOk /\ entry.nameOk /\ ~IsPdfEntry(entry)

ReadablePdf(entry) == entry.hdrOk /\ entry.nameOk /\ IsPdfEntry(entry) /\ entry.readOk

\* what the queue owes to an entry whose header was read
ExpectedSent(entry) ==
    (IF NonPdf(entry) THEN <<>>
     ELSE IF ReadablePdf(entry) THEN <<Ok([filename |-> entry.filename, buf |-> entry.data])>>
     ELSE <<DecodeOrReadError(entry)>>)
    \o (IF entry.skipOk THEN <<>> ELSE <<Err("cannot skip to next zip entry")>>)

\* C8: when reading the next entry fails, the reader puts exactly one error
\* item on the queue and stops: no further entry is read, no item follows
\* the error, and the stream ends.
C8_HeaderFailureEndsStream ==
    \A i \in 1..Len(archive) :
        (Handled(i) /\ ~archive[i].hdrOk) =>
            /\ SentFor(i) = <<Err("cannot read next zip entry")>>
            /\ reader = "done" /\ zipPos = i
            /\ sent[Len(sent)].src = i
            /\ \A j \in (i + 1)..Len(archive) : SentFor(j) = <<>>

\* the second of three entries cannot be read, and the consumer has drained the queue
C8_Witness ==
    /\ Len(archive) = 3 /\ ~archive[2].hdrOk
    /\ Handled(2) /\ reader = "done"
    /\ sent # <<>> /\ received = Len(sent)

C11_MissingAnchorPropagates ==
    (fnOut.done /\ ~fnIn.anchor) =>
        /\ ~fnOut.matched.ok
        /\ ~fnOut.unmatched.ok
        /\ ~fnOut.result.ok
        /\ fnOut.items = <<fnOut.result>>
        /\ fnOut.reported = <<Err("could not parse question numbers from PDF text")>>

\* a text without the anchor whose pages list the whole two-question outline
C11_Witness ==
    /\ fnOut.done /\ ~fnIn.anchor
    /\ Len(fnIn.all_questions) = 2
    /\ OutlineNumbers \subseteq MatchedSet
    /\ Len(fnOut.reported) = 1 /\ ~fnOut.reported[1].ok

(***************************************************************************)
(* Properties of the grammar (SpecGrammar).                                *)
(***************************************************************************)
RECURSIVE ListedNumbers(_)
\* the numbers listed after the labels of the pages, in document order
ListedNumbers(pages) ==
    IF pages = <<>> THEN <<>> ELSE Head(pages).nums \o ListedNumbers(Tail(pages))

RECURSIVE ListedOnQuestionPages(_)
\* the same without the pages labelled "No questions ..."
ListedOnQuestionPages(pages) ==
    IF pages = <<>> THEN <<>>
    ELSE (IF Head(pages).label = 3 THEN <<>> ELSE Head(pages).nums)
         \o ListedOnQuestionPages(Tail(pages))

\* no digits follow a "No questions ..." label
NoQuestionPagesBare == \A i \in 1..Len(fnIn.pages) : fnIn.pages[i].label = 3 => fnIn.pages[i].nums = <<>>

\* C12: on filler, the anchor, pages of filler, label and list, then trailing
\* filler, the grammar succeeds and returns the numbers listed after the
\* labels, in document order.
C12_TrailingFillerAccepted ==
    (fnOut.done /\ NoQuestionPagesBare /\ fnIn.trailing \in {<<>>, Filler}) =>
        /\ fnOut.ok
        /\ fnOut.val = ListedNumbers(fnIn.pages)

\* the example "...Total Points...Questions assigned to the following
\* page:1,2,and3...No questions assigned to the following page...." and
\* the same text without its last three characters
IsExample(trailing) ==
    /\ fnIn.pages = <<DocPage(1, <<<<1>>, <<2>>, <<3>>>>, <<Comma, CommaAnd>>), DocPage(3, <<>>, <<>>)>>
    /\ fnIn.filler /\ fnIn.trailing = trailing

\* the example is rejected; without the trailing filler it yields 1, 2, 3
C12_ExampleOutcome ==
    fnOut.done =>
        /\ IsExample(Filler) => ~fnOut.ok
        /\ IsExample(<<>>) => (fnOut.ok /\ fnOut.val = <<<<1>>, <<2>>, <<3>>>>)

\* C13: a page labelled "No questions assigned to the following page."
\* contributes no number, whatever follows the label, and is no error.
C13_NoQuestionsPageContributesNothing ==
    (fnOut.done /\ fnIn.trailing = <<>>) =>
        /\ fnOut.ok
        /\ fnOut.val = ListedOnQuestionPages(fnIn.pages)

\* C14: pdf_text accepts a document only if nothing is left after the last
\* page it can parse; with anything left it fails and returns no list.
C14_LeftoverRejected ==
    fnOut.done =>
        /\ fnOut.ok <=> fnIn.trailing = <<>>
        /\ fnOut.matched.ok <=> fnIn.trailing = <<>>
        /\ fnOut.ok => fnOut.val = ListedNumbers(fnIn.pages)

\* two pages that list numbers, then filler: rejected
C14_Witness ==
    /\ fnOut.done
    /\ Len(fnIn.pages) = 2 /\ ListedNumbers(fnIn.pages) # <<>>
    /\ fnIn.pages[2].nums # <<>>
    /\ fnIn.trailing = Filler
    /\ ~fnOut.ok /\ ~fnOut.matched.ok

(***************************************************************************)
(* Properties of QuestionNumber (SpecNumber).                              *)
(***************************************************************************)
\* a is before b lexicographically: they agree up to a position where a has
\* ended and b has not, or where a's component is the smaller
LexLess(a, b) ==
    \E k \in 1..Len(b) :
        /\ k - 1 <= Len(a)
        /\ \A j \in 1..(k - 1) : a[j] = b[j]
        /\ (k > Len(a) \/ a[k] < b[k])

\* C15: the order of QuestionNumber is total and lexicographic with a proper
\* prefix before its extensions ([1,2] < [1,3] < [2] < [2,1], [1] < [1,1]):
\* exactly one of a < b, a = b, a > b holds, and the diff engine's sort and
\* binary search follow the same order.
C15_OrderIsLexicographic ==
    fnOut.done =>
        LET a == fnIn.a
            b == fnIn.b
        IN /\ fnOut.cmp \in {"Less", "Equal", "Greater"}
           /\ (fnOut.cmp = "Less") <=> LexLess(a, b)
           /\ (fnOut.cmp = "Equal") <=> (a = b)
           /\ (fnOut.cmp = "Greater") <=> LexLess(b, a)
           /\ (fnOut.cmp = "Less") <=> (fnOut.rev = "Greater")
           /\ \A c \in QValues :
                 (fnOut.cmp = "Less" /\ QnCmp(b, c) = "Less") => QnCmp(a, c) = "Less"
           /\ (a = <<1, 2>> /\ b = <<1, 3>>) => fnOut.cmp = "Less"
           /\ (a = <<1, 3>> /\ b = <<2>>) => fnOut.cmp = "Less"
           /\ (a = <<2>> /\ b = <<2, 1>>) => fnOut.cmp = "Less"
           /\ (a = <<1>> /\ b = <<1, 1>>) => fnOut.cmp = "Less"
           /\ fnOut.sorted = IF LexLess(b, a) THEN <<b, a>> ELSE <<a, b>>
           /\ \A c \in QValues : binary_search(fnOut.searchable, c) <=> c \in {a, b}

\* [2] against [1,3]: the longer number is the smaller one
C15_Witness ==
    /\ fnOut.done
    /\ fnIn.a = <<2>> /\ fnIn.b = <<1, 3>>
    /\ fnOut.cmp = "Greater"
    /\ fnOut.sorted = <<<<1, 3>>, <<2>>>>

NodePaths == UNION {[1..d -> 1..MaxChildren] : d \in 1..MaxNesting}

\* the node at path p below nodes, with the indices met on the way
RECURSIVE Walk(_, _, _)
Walk(nodes, p, indices) ==
    IF Head(p) > Len(nodes) THEN [found |-> FALSE]
    ELSE LET n == nodes[Head(p)]
         IN IF Len(p) = 1
            THEN [found |-> TRUE, node |-> n, number |-> Append(indices, n.index)]
            ELSE IF n.type = "Inner" THEN Walk(n.children, Tail(p), Append(indices, n.index))
            ELSE [found |-> FALSE]

\* the paths that lead to a node of the outline
FoundPaths == {p \in NodePaths : Walk(fnIn.tree, p, <<>>).found}

IsLeafPath(p) ==
    LET w == Walk(fnIn.tree, p, <<>>) IN w.found /\ w.node.type = "Leaf"

LeafPaths == {p \in FoundPaths : IsLeafPath(p)}

\* the leaves in depth-first, left-to-right order: by path, lexicographically
LeafAt(j) == CHOOSE p \in LeafPaths : Cardinality({q \in LeafPaths : LexLess(q, p)}) = j - 1

ExpectedQuestions ==
    [j \in 1..Cardinality(LeafPaths) |->
        LET w == Walk(fnIn.tree, LeafAt(j), <<>>)
        IN [title |-> w.node.title, number |-> w.number]]

\* C17: into_questions yields one Question per leaf, in depth-first
\* left-to-right order, numbered by the indices of its ancestor groups from
\* the root followed by its own index; a group without children yields none.
C17_OneQuestionPerLeaf ==
    fnOut.done =>
        /\ Len(fnOut.questions) = Cardinality(LeafPaths)
        /\ fnOut.questions = ExpectedQuestions

\* a group of groups after a group whose only child has no children
C17_Witness ==
    /\ fnOut.done
    /\ Len(fnIn.tree) = 2
    /\ fnIn.tree[1] = Inner(2, <<Inner(1, <<>>)>>)
    /\ fnIn.tree[2] = Inner(1, <<Inner(2, <<Leaf(1, "b"), Leaf(2, "c")>>), Leaf(2, "d")>>)
    /\ fnOut.questions = <<Question("b", <<1, 2, 1>>), Question("c", <<1, 2, 2>>),
                           Question("d", <<1, 2>>)>>

PairwiseDistinctNumbers ==
    \A i, j \in 1..Len(fnOut.questions) :
        i # j => fnOut.questions[i].number # fnOut.questions[j].number

\* C18 as stated: the numbers of one flattened outline are pairwise distinct.
C18_AsStated == fnOut.done => PairwiseDistinctNumbers

SameParent(p, q) ==
    /\ Len(p) = Len(q) /\ p # q
    /\ \A k \in 1..(Len(p) - 1) : p[k] = q[k]

\* nodes with the same parent, and top-level nodes, have different indices
SiblingIndicesDistinct ==
    \A p, q \in FoundPaths :
        SameParent(p, q) =>
            Walk(fnIn.tree, p, <<>>).node.index # Walk(fnIn.tree, q, <<>>).node.index

\* C18: the numbers of one flattened outline are pairwise distinct when the
\* nodes that share a parent (and the top-level nodes) have pairwise
\* different indices.
C18_DistinctIfSiblingsDistinct ==
    (fnOut.done /\ SiblingIndicesDistinct) => PairwiseDistinctNumbers

\* a leaf 2 next to a group 1 with leaves 1 and 2: three different numbers
C18_Witness ==
    /\ fnOut.done /\ SiblingIndicesDistinct
    /\ fnIn.tree = <<Leaf(2, "a"), Inner(1, <<Leaf(1, "a"), Leaf(2, "a")>>)>>
    /\ Len(fnOut.questions) = 3 /\ PairwiseDistinctNumbers

(***************************************************************************)
(* Properties of the worker stages (SpecPool).                             *)
(***************************************************************************)
\* the PDFs being processed: text extraction spawned by submissions(), and
\* grammar and diff spawned by unmatched()
InProcessing == Cardinality(pdfTasks) + Cardinality(unmTasks)

\* C19 as stated: at most 16 submissions are in processing at any moment.
C19_AsStated == InProcessing <= BufferLimit

\* C19: each of the two stages has at most 16 submissions in processing at
\* any moment, so the two together have at most 32, however many PDF
\* buffers the reader has queued.
C19_EachStageBounded ==
    /\ Cardinality(pdfTasks) <= BufferLimit
    /\ Cardinality(unmTasks) <= BufferLimit
    /\ InProcessing <= 2 * BufferLimit

\* both stages are full and a buffer is still waiting in the queue
C19_Witness ==
    /\ Cardinality(pdfTasks) = BufferLimit
    /\ Cardinality(unmTasks) = BufferLimit
    /\ received < Len(sent)

(***************************************************************************)
(* Properties of the interleavings (Spec).                                 *)
(***************************************************************************)
\* the report of a run that handles one entry after the other, each through
\* every stage before the next is read
RECURSIVE SequentialItems(_, _)
SequentialItems(queued, i) ==
    IF i > Len(queued) THEN <<>>
    ELSE ReportItems(UnmatchedTask(SubmissionsTask(queued[i].res), into_questions(outline)),
                     submission_to_student_map(props).val)
         \o SequentialItems(queued, i + 1)

RECURSIVE SequentialRun(_)
SequentialRun(i) ==
    IF i > Len(archive) THEN <<>>
    ELSE LET it == ReaderIteration(archive[i], i)
         IN SequentialItems(it.items, 1) \o (IF it.continue THEN SequentialRun(i + 1) ELSE <<>>)

ReportedItems == [i \in 1..Len(report) |-> report[i].item]

CountIn(items, x) == Cardinality({i \in 1..Len(items) : items[i] = x})

SameMultiset(s, t) ==
    /\ Len(s) = Len(t)
    /\ \A i \in 1..Len(s) : CountIn(s, s[i]) = CountIn(t, s[i])

\* C20: once the stream is drained, the multiset of the items it has yielded
\* is the one of the run that handles the entries one after the other,
\* whatever the interleaving of the reader and the worker stages was.
C20_SameMultisetInEveryInterleaving ==
    Done => \E seq \in {SequentialRun(1)} : SameMultiset(ReportedItems, seq)

\* a drained run whose items came in another order than the archive's
C20_Witness ==
    /\ Done
    /\ Len(report) >= 2
    /\ ReportedItems # SequentialRun(1)
    /\ SameMultiset(ReportedItems, SequentialRun(1))

(***************************************************************************)
(* Properties of cancellation (SpecCancel).                                *)
(***************************************************************************)
\* C21: after the consumer has dropped the stream, the reader thread does
\* not panic on the closed queue.
C21_ReaderReleasedCleanly == phase = "dropped" => reader # "panicked"

\* what the reader does once the stream is dropped: it stops cleanly only if
\* no entry that is left makes it send; otherwise it reads on up to the first
\* such entry and panics there
C21_PanicsAtNextSend ==
    (phase = "dropped" /\ reader \in {"done", "panicked"}) =>
        /\ zipPos <= Len(archive) + 1
        /\ reader = "panicked" =>
              /\ zipPos <= Len(archive)
              /\ ~NonPdf(archive[zipPos]) \/ ~archive[zipPos].skipOk

(***************************************************************************)
(* Properties of the stages (Spec): one outcome per PDF buffer.            *)
(***************************************************************************)
\* the stages the k-th item of the queue is in
StagesOf(k) ==
    (IF k > received THEN {"queued"} ELSE {})
    \cup (IF k \in pdfTasks THEN {"submissions"} ELSE {})
    \cup (IF \E t \in unmTasks : t.k = k THEN {"unmatched"} ELSE {})
    \cup (IF Finished(k) THEN {"finished"} ELSE {})

\* what unmatched() owes to a PDF entry: nothing, one UnmatchedSubmission
\* with the entry's id, or one error
OutcomeAsExpected(out, entry) ==
    IF Failed(entry) THEN Len(out) = 1 /\ ~out[1].ok
    ELSE IF Missing(entry) = <<>> THEN out = <<>>
    ELSE out = <<Ok([id |-> SubmissionIdOf(entry), unmatched_questions |-> Missing(entry)])>>

\* C22: every PDF buffer is in exactly one stage at a time and is parsed
\* into one result carrying the id of its own entry; unmatched() turns that
\* result into nothing, one UnmatchedSubmission with that id, or one error;
\* and the items of the report come from finished buffers only, each from
\* the outcome of its own entry.
C22_OneOutcomePerBuffer ==
    /\ \A k \in 1..Len(sent) : Cardinality(StagesOf(k)) = 1
    /\ \A t, u \in unmTasks : t.k = u.k => t = u
    /\ \A t \in unmTasks :
          /\ t.res.ok = (EntryOf(t.k).data # "corrupt")
          /\ t.res.ok => t.res.val.submission_id = SubmissionIdOf(EntryOf(t.k))
          /\ \E out \in {try_filter_map(UnmatchedTask(t.res, all_questions))} :
                OutcomeAsExpected(out, EntryOf(t.k))
    /\ \A i \in 1..Len(report) :
          /\ Finished(report[i].k)
          /\ report[i].item.ok =>
                report[i].item.val.submission_id = SubmissionIdOf(EntryOf(report[i].k))
    /\ \A k \in 1..Len(sent) : Finished(k) => ItemsAsExpected(ItemsOf(k), EntryOf(k))

\* a drained run over a fully matched PDF, a PDF with an unmatched question
\* and a PDF that cannot be parsed, the last one reported first
C22_Witness ==
    /\ Done
    /\ \E a, b, c \in 1..Len(sent) :
          /\ ~Failed(EntryOf(a)) /\ Missing(EntryOf(a)) = <<>> /\ ItemsOf(a) = <<>>
          /\ HasUnmatched(EntryOf(b)) /\ ItemsOf(b) = RecordsOf(EntryOf(b)) /\ ItemsOf(b) # <<>>
          /\ Failed(EntryOf(c)) /\ Len(ItemsOf(c)) = 1
          /\ b < c /\ report[1].k = c

(***************************************************************************)
(* Properties of the roster (Spec).                                        *)
(***************************************************************************)
\* C23: every submission id of the SubmissionToStudentMap maps to at least
\* one student.
C23_RosterListsNonempty ==
    phase = "streaming" => \A id \in DOMAIN roster : roster[id] # <<>>

\* what the map holds instead: for every submission of the metadata, those of
\* its active users that are among the metadata's students
C23_RosterKeepsKnownStudents ==
    phase = "streaming" =>
        /\ DOMAIN roster = DOMAIN props.submissions
        /\ \A id \in DOMAIN roster :
              /\ Len(roster[id]) =
                    Cardinality({i \in 1..Len(props.submissions[id].active_user_ids) :
                                    \E j \in 1..Len(props.students) :
                                        props.students[j].id = props.submissions[id].active_user_ids[i]})
              /\ \A i \in 1..Len(roster[id]) :
                    \E j \in 1..Len(props.students) : props.students[j] = roster[id][i]

(***************************************************************************)
(* Properties of the queue's order (SpecExtract).                          *)
(***************************************************************************)
\* C24: the reader is at one entry at a time: the queue holds the items of
\* the entries it has handled, complete and in archive order, and nothing of
\* a later entry; the consumer has taken a prefix of the queue.
C24_QueueInArchiveOrder ==
    /\ \A j, k \in 1..Len(sent) : j < k => sent[j].src <= sent[k].src
    /\ \A k \in 1..Len(sent) : Handled(sent[k].src)
    /\ \A i \in 1..Len(archive) :
          (Handled(i) /\ archive[i].hdrOk) => SentFor(i) = ExpectedSent(archive[i])
    /\ pdfTasks = 1..received
    /\ received <= Len(sent)

\* the consumer has taken the item of the first entry and the first of the
\* two items of the second, while the reader is past both
C24_Witness ==
    /\ Len(sent) >= 3 /\ received = 2
    /\ sent[1].src < sent[2].src /\ sent[2].src = sent[3].src
    /\ Handled(sent[3].src)

(***************************************************************************)
(* Liveness (SpecLive).                                                    *)
(***************************************************************************)
\* the consumer keeps polling the report stream, and the tasks it has spawned
\* on the worker pool complete
ConsumerKeepsPolling ==
    /\ WF_vars(SubmissionsPoll)
    /\ WF_vars(PdfTaskDone)
    /\ WF_vars(UnmatchedTaskDone)

\* C25: the reader thread, once started, ends, whatever the consumer does;
\* and if the consumer keeps polling, every item of the queue goes through
\* every stage and the stream ends.
C25_ReaderEndsAndStreamDrains ==
    /\ (reader = "running") ~> (reader = "done")
    /\ ConsumerKeepsPolling =>
          /\ (phase = "streaming") ~> Done
          /\ \A k \in 1..MaxEntries : (k <= Len(sent)) ~> Finished(k)

\* the reader has ended on a full archive before the consumer has polled once
C25_Witness ==
    /\ reader = "done" /\ zipPos > Len(archive)
    /\ Len(archive) = MaxEntries /\ Len(sent) = MaxEntries
    /\ received = 0

(***************************************************************************)
(* Properties of the diff engine on rearranged lists (SpecDiffPair).       *)
(***************************************************************************)
NumbersOf(list) == {list[i] : i \in 1..Len(list)}

\* C26: two PDFs that list the same set of numbers, in whatever order and
\* however often, have the same unmatched questions against any outline.
C26_SameSetSameDiff ==
    (fnOut.done /\ NumbersOf(fnIn.matched) = NumbersOf(fnIn.other)) =>
        /\ fnOut.first.ok /\ fnOut.second.ok
        /\ fnOut.first.val = fnOut.second.val

\* two numbers listed in descending order in one PDF and, reversed and
\* repeated, in the other; the outline has both and a question neither lists
C26_Witness ==
    /\ fnOut.done
    /\ fnIn.matched = <<<<2>>, <<1>>>>
    /\ fnIn.other = <<<<1>>, <<2>>, <<2>>, <<1>>>>
    /\ Len(fnIn.all_questions) = 3
    /\ Len(fnOut.first.val) = 1
    /\ fnOut.second.val = fnOut.first.val

(***************************************************************************)
(* Properties of the diff engine on numbers outside the outline (SpecDiff).*)
(***************************************************************************)
InOutline(number) == number \in OutlineNumbers

\* the listed numbers that are numbers of outline questions
RelevantMatched == SelectSeq(fnIn.matched, InOutline)

\* as_unmatched on the PDF that lists the relevant numbers only
RelevantResult ==
    as_unmatched([submission_id |-> Chars(1), text |-> PdfTextListing(RelevantMatched, fnIn.anchor)],
                 fnIn.all_questions)

\* C27 as stated: the result is the one of the PDF that lists only the
\* numbers of outline questions, and it is Ok(None) on an empty outline,
\* for every PDF.
C27_AsStated ==
    fnOut.done =>
        /\ \E r \in {RelevantResult} : fnOut.result = r
        /\ fnIn.all_questions = <<>> => fnOut.result = Ok(None)

\* C27: for a PDF whose text parses, the result is the one of the PDF that
\* lists only the numbers of outline questions, and it is Ok(None) on an
\* empty outline; a PDF whose text does not parse is an error on any outline.
C27_OnlyOutlineNumbersCount ==
    fnOut.done =>
        /\ \E r \in {RelevantResult} : fnOut.result = r
        /\ fnIn.anchor =>
              /\ fnOut.result.ok
              /\ fnIn.all_questions = <<>> => fnOut.result = Ok(None)
        /\ ~fnIn.anchor => ~fnOut.result.ok

\* a PDF that lists a number of the outline and a number outside it, against
\* an outline with a question it does not list
C27_Witness ==
    /\ fnOut.done /\ fnIn.anchor
    /\ \E i, j \in 1..Len(fnIn.matched) :
          fnIn.matched[i] \in OutlineNumbers /\ fnIn.matched[j] \notin OutlineNumbers
    /\ fnOut.result.ok /\ fnOut.result.val.some
    /\ Len(fnOut.result.val.val.unmatched_questions) < Len(fnIn.all_questions)

(***************************************************************************)
(* Properties of the list parser (SpecList).                               *)
(***************************************************************************)
\* C28: numbers joined by ",", ",and" or "and" are all read, in order; what
\* follows the last number, a separator included, is left unread and is no
\* error; with no number at all the list is empty and nothing is read.
C28_SeparatorsAccepted ==
    fnOut.done =>
        /\ fnOut.res.ok
        /\ fnOut.res.val = fnIn.nums
        /\ fnOut.res.pos = Len(fnOut.text) - Len(fnIn.tail) + 1

\* "1,2,and3," : three numbers, the last comma left unread
C28_Witness ==
    /\ fnOut.done
    /\ fnOut.text = <<"1", ",", "2", ",", "a", "n", "d", "3", ",">>
    /\ fnOut.res.ok
    /\ fnOut.res.val = <<<<1>>, <<2>>, <<3>>>>
    /\ fnOut.res.pos = 9

(***************************************************************************)
(* Properties of QuestionNumber from text (SpecText).                      *)
(***************************************************************************)
Pow10[k \in 0..(MaxText + 1)] == IF k = 0 THEN 1 ELSE 10 * Pow10[k - 1]

\* the piece, after an optional "+", is the decimal notation of v, leading
\* zeros allowed
Denotes(piece, v) ==
    LET d == IF piece # <<>> /\ piece[1] = "+" THEN Tail(piece) ELSE piece
        n == Len(d)
    IN /\ n >= 1
       /\ v < Pow10[n]
       /\ \A i \in 1..n : IsDigit(d[i]) /\ DigitValue(d[i]) = (v \div Pow10[n - i]) % 10

\* the places where the text is cut: before it, at its dots, after it
Cuts(text) == {0, Len(text) + 1} \cup {i \in 1..Len(text) : text[i] = "."}

\* the j-th piece of the text, counted from 1
PieceOf(text, j) ==
    LET cuts == Cuts(text)
        a == CHOOSE c \in cuts : Cardinality({x \in cuts : x < c}) = j - 1
        b == CHOOSE c \in cuts : Cardinality({x \in cuts : x < c}) = j
    IN SubSeq(text, a + 1, b - 1)

NumPieces(text) == Cardinality(Cuts(text)) - 1

IsComponent(v) == v \in 1..U8Max

\* C29: from_str succeeds exactly on the texts whose every piece between
\* dots denotes an integer from 1 to 255, and then yields these integers, at
\* least one; the empty text, an empty piece, a piece 0 and a piece above
\* 255 are errors.  The numbers of question_num and of the flattened outline
\* are of the same kind.
C29_ComponentsInRange ==
    fnOut.done =>
        /\ fnOut.parsed.ok =
              (\A j \in 1..NumPieces(fnIn.text) : \E v \in 1..U8Max : Denotes(PieceOf(fnIn.text, j), v))
        /\ fnOut.parsed.ok =>
              /\ Len(fnOut.parsed.val) = NumPieces(fnIn.text)
              /\ Len(fnOut.parsed.val) >= 1
              /\ \A j \in 1..Len(fnOut.parsed.val) :
                    /\ IsComponent(fnOut.parsed.val[j])
                    /\ Denotes(PieceOf(fnIn.text, j), fnOut.parsed.val[j])
        /\ fnOut.num.ok =>
              /\ Len(fnOut.num.val) >= 1
              /\ \A j \in 1..Len(fnOut.num.val) : IsComponent(fnOut.num.val[j])
        /\ \A i \in 1..Len(fnOut.questions) :
              /\ Len(fnOut.questions[i].number) >= 1
              /\ \A j \in 1..Len(fnOut.questions[i].number) :
                    IsComponent(fnOut.questions[i].number[j])

\* "256" is an overflow, for from_str and for question_num alike, while the
\* outline has a question 255.255
C29_Witness ==
    /\ fnOut.done
    /\ fnIn.text = <<"2", "5", "6">>
    /\ fnOut.parsed = Err("PosOverflow")
    /\ ~fnOut.num.ok
    /\ \E i \in 1..Len(fnOut.questions) : fnOut.questions[i].number = <<U8Max, U8Max>>

(***************************************************************************)
(* Properties of the page classification (SpecPage).                       *)
(***************************************************************************)
\* the question number a text stands for once trimmed, if any
NumberIn(text) ==
    IF text = <<"1">> THEN Some(<<1>>)
    ELSE IF text = <<" ", "1", ".", "2", "\n">> THEN Some(<<1, 2>>)
    ELSE None

\* C30: a page whose resources can be read is a student-submission page iff
\* it has no fonts or does not hold the logo; with fonts and logo it is the
\* summary page of the number its first text stands for, and an error if
\* there is no such number; it is never both.
C30_PageClassification ==
    (fnOut.done /\ fnIn.page.resOk) =>
        LET pg == fnIn.page
            first == IF pg.opsOk /\ pg.texts # <<>> THEN NumberIn(pg.texts[1]) ELSE None
        IN /\ (fnOut.kind.ok /\ fnOut.kind.val.kind = "StudentSubmission")
                 <=> (~pg.fonts \/ ~pg.logo)
           /\ (pg.fonts /\ pg.logo) =>
                 IF first.some
                 THEN fnOut.kind = Ok([kind |-> "QuestionSummary", number |-> first.val])
                 ELSE ~fnOut.kind.ok

\* a page with fonts and the logo whose first text is no number, followed
\* by a text that is one: an error
C30_Witness ==
    /\ fnOut.done
    /\ fnIn.page.resOk /\ fnIn.page.fonts /\ fnIn.page.logo /\ fnIn.page.opsOk
    /\ fnIn.page.texts = <<<<"Q", "1">>, <<"1">>>>
    /\ fnOut.kind = Err("could not parse question number")

(***************************************************************************)
(* The export cache: save_submissions_to_fs (and the equal                 *)
(* ensure_submissions_export_on_fs / export_submissions_to_fs) as calls    *)
(* that interleave at their await points.  fnOut holds the directory       *)
(* (names: path -> inode, 0 when absent), the inodes (chunk position ->    *)
(* the call that wrote it, 0 for nothing), the calls and the number of     *)
(* export requests issued.                                                 *)
(***************************************************************************)
\* most calls, and most chunks of one download
MaxCalls == 3
MaxChunks == 2

InitCalls(concurrent) ==
    /\ fnIn \in [kind : {"cache"}, concurrent : {concurrent}, chunks : 1..MaxChunks]
    /\ fnOut = [names |-> [zip |-> 0, tmp |-> 0], inodes |-> <<>>,
                calls |-> [c \in 1..MaxCalls |->
                            [pc |-> "idle", file |-> 0, pos |-> 0, requested |-> FALSE,
                             failure |-> "none"]], requests |-> 0]
    /\ archive = <<>>
    /\ props = CourseProps
    /\ outline = CourseOutline
    /\ phase = "off"
    /\ all_questions = <<>>
    /\ roster = <<>>
    /\ zipPos = 1
    /\ reader = "idle"
    /\ sent = <<>>
    /\ received = 0
    /\ pdfTasks = {}
    /\ unmTasks = {}
    /\ report = <<>>

CacheFrame ==
    UNCHANGED <<inputVars, phase, all_questions, roster, zipPos, reader, sent,
                received, pdfTasks, unmTasks, report, fnIn>>

\* mutant: the export is requested whether or not the file is there
save_submissions_to_fs_NoCheck(c) ==
    /\ fnIn.kind = "cache"
    /\ fnOut.calls[c].pc = "idle"
    /\ \A d \in 1..(c - 1) : fnOut.calls[d].pc # "idle"
    /\ fnIn.concurrent \/ \A d \in 1..MaxCalls : fnOut.calls[d].pc \notin {"request", "chunks"}
    /\ fnOut' = [fnOut EXCEPT !.calls[c].pc = "request",
                              !.calls[c].requested = TRUE,
                              !.requests = @ + 1]
    /\ CacheFrame

\* a call up to its first await: the check of the path, then the request
save_submissions_to_fs(c) ==
    /\ fnIn.kind = "cache"
    /\ fnOut.calls[c].pc = "idle"
    /\ \A d \in 1..(c - 1) : fnOut.calls[d].pc # "idle"
    /\ fnIn.concurrent \/ \A d \in 1..MaxCalls : fnOut.calls[d].pc \notin {"request", "chunks"}
    /\ IF fnOut.names.zip # 0
       THEN fnOut' = [fnOut EXCEPT !.calls[c].pc = "ok"]
       ELSE fnOut' = [fnOut EXCEPT !.calls[c].pc = "request",
                                   !.calls[c].requested = TRUE,
                                   !.requests = @ + 1]
    /\ CacheFrame

\* mutant: the download is written to the final path
ExportResponse_InPlace(c) ==
    /\ fnIn.kind = "cache"
    /\ fnOut.calls[c].pc = "request"
    /\ \/ fnOut' = [fnOut EXCEPT !.calls[c].pc = "err", !.calls[c].failure = "request"]
       \/ IF fnOut.names.zip # 0
          THEN fnOut' = [fnOut EXCEPT !.inodes[fnOut.names.zip] = [i \in 1..fnIn.chunks |-> 0],
                                      !.calls[c].pc = "chunks",
                                      !.calls[c].file = fnOut.names.zip]
          ELSE fnOut' = [fnOut EXCEPT !.inodes = Append(@, [i \in 1..fnIn.chunks |-> 0]),
                                      !.names.zip = Len(fnOut.inodes) + 1,
                                      !.calls[c].pc = "chunks",
                                      !.calls[c].file = Len(fnOut.inodes) + 1]
    /\ CacheFrame

\* the export request ends: with an error, or with a response, and then
\* File::create makes the .tmp file or truncates the one that is there
ExportResponse(c) ==
    /\ fnIn.kind = "cache"
    /\ fnOut.calls[c].pc = "request"
    /\ \/ fnOut' = [fnOut EXCEPT !.calls[c].pc = "err", !.calls[c].failure = "request"]
       \/ IF fnOut.names.tmp # 0
          THEN fnOut' = [fnOut EXCEPT !.inodes[fnOut.names.tmp] = [i \in 1..fnIn.chunks |-> 0],
                                      !.calls[c].pc = "chunks",
                                      !.calls[c].file = fnOut.names.tmp]
          ELSE fnOut' = [fnOut EXCEPT !.inodes = Append(@, [i \in 1..fnIn.chunks |-> 0]),
                                      !.names.tmp = Len(fnOut.inodes) + 1,
                                      !.calls[c].pc = "chunks",
                                      !.calls[c].file = Len(fnOut.inodes) + 1]
    /\ CacheFrame

\* chunk().await ends: with an error, with data that is written at the
\* call's own offset, or with None, and then the .tmp path is renamed
Chunk(c) ==
    /\ fnIn.kind = "cache"
    /\ fnOut.calls[c].pc = "chunks"
    /\ \/ fnOut' = [fnOut EXCEPT !.calls[c].pc = "err", !.calls[c].failure = "chunk"]
       \/ /\ fnOut.calls[c].pos < fnIn.chunks
          /\ fnOut' = [fnOut EXCEPT !.inodes[fnOut.calls[c].file][fnOut.calls[c].pos + 1] = c,
                                    !.calls[c].pos = @ + 1]
       \/ /\ fnOut.calls[c].pos = fnIn.chunks
          /\ IF fnOut.names.tmp = 0
             THEN fnOut' = [fnOut EXCEPT !.calls[c].pc = "err",
                                         !.calls[c].failure = "rename"]
             ELSE fnOut' = [fnOut EXCEPT !.names = [zip |-> fnOut.names.tmp, tmp |-> 0],
                                         !.calls[c].pc = "ok"]
    /\ CacheFrame

NextCache ==
    \E c \in 1..MaxCalls : save_submissions_to_fs(c) \/ ExportResponse(c) \/ Chunk(c)

\* calls one after the other
SpecCache == InitCalls(FALSE) /\ [][NextCache]_vars

\* calls of concurrently handled selectors of one assignment
SpecRace == InitCalls(TRUE) /\ [][NextCache]_vars

(***************************************************************************)
(* await_export_completion: the loop that polls the status of a requested  *)
(* export.  fnOut holds the loop's position, the status the server         *)
(* reports, the last response and the responses so far.                    *)
(***************************************************************************)
\* responses kept in fnOut.seen; the loop itself has no bound
MaxPolls == 3

\* mutant: every status but the two known waiting ones counts as completed
completed_Lenient(status) == status \notin {"unprocessed", "processing"}

\* ExportSubmissionsStatus::completed
completed(status) ==
    CASE status \in {"unprocessed", "processing"} -> FALSE
      [] status = "completed" -> TRUE
      [] OTHER -> FALSE

InitExport ==
    /\ fnIn = [kind |-> "export"]
    /\ fnOut = [pc |-> "request", server |-> "unprocessed", last |-> "none",
                seen |-> <<>>, result |-> "none"]
    /\ archive = <<>>
    /\ props = CourseProps
    /\ outline = CourseOutline
    /\ phase = "off"
    /\ all_questions = <<>>
    /\ roster = <<>>
    /\ zipPos = 1
    /\ reader = "idle"
    /\ sent = <<>>
    /\ received = 0
    /\ pdfTasks = {}
    /\ unmTasks = {}
    /\ report = <<>>

\* the export on the server: waiting, worked on, then completed for good,
\* or given a status the client does not know
ServerStep ==
    /\ fnIn.kind = "export"
    /\ \/ fnOut.server = "unprocessed" /\ fnOut' = [fnOut EXCEPT !.server = "processing"]
       \/ fnOut.server = "processing" /\ fnOut' = [fnOut EXCEPT !.server = "completed"]
       \/ fnOut.server = "processing" /\ fnOut' = [fnOut EXCEPT !.server = "failed"]
       \/ fnOut.server = "failed" /\ fnOut' = [fnOut EXCEPT !.server = "processing"]
    /\ CacheFrame

Seen(response) == IF Len(fnOut.seen) < MaxPolls THEN Append(fnOut.seen, response) ELSE fnOut.seen

\* one turn of the loop with a response that decodes
StatusResponse ==
    /\ fnIn.kind = "export"
    /\ fnOut.pc = "request"
    /\ IF completed(fnOut.server)
       THEN fnOut' = [fnOut EXCEPT !.pc = "returned", !.result = "download_path",
                                   !.last = fnOut.server, !.seen = Seen(fnOut.server)]
       ELSE fnOut' = [fnOut EXCEPT !.pc = "sleep",
                                   !.last = fnOut.server, !.seen = Seen(fnOut.server)]
    /\ CacheFrame

\* one turn of the loop in which send or json fails
StatusFailure ==
    /\ fnIn.kind = "export"
    /\ fnOut.pc = "request"
    /\ \E failure \in {"send", "json"} :
          fnOut' = [fnOut EXCEPT !.pc = "error", !.result = failure,
                                 !.last = failure, !.seen = Seen(failure)]
    /\ CacheFrame

\* sleep(10 s) ends
SleepEnds ==
    /\ fnIn.kind = "export"
    /\ fnOut.pc = "sleep"
    /\ fnOut' = [fnOut EXCEPT !.pc = "request"]
    /\ CacheFrame

\* the runtime resumes the loop when the response or the timer is ready
SpecExport ==
    /\ InitExport
    /\ [][ServerStep \/ StatusResponse \/ StatusFailure \/ SleepEnds]_vars
    /\ WF_vars(StatusResponse) /\ WF_vars(SleepEnds)

(***************************************************************************)
(* RateLimited::get under concurrent callers, with a clock.  fnOut holds   *)
(* the time, each caller's position and wake-up time, and the times at     *)
(* which get has returned the guard.                                       *)
(***************************************************************************)
\* the callers, the delay in ticks of the clock, and the last tick
MaxCallers == 2
Delay == 2
MaxTime == 6

InitLimit ==
    /\ fnIn = [kind |-> "limit"]
    /\ fnOut = [now |-> 0, grants |-> <<>>,
                callers |-> [c \in 1..MaxCallers |-> [pc |-> "idle", wake |-> 0]]]
    /\ archive = <<>>
    /\ props = CourseProps
    /\ outline = CourseOutline
    /\ phase = "off"
    /\ all_questions = <<>>
    /\ roster = <<>>
    /\ zipPos = 1
    /\ reader = "idle"
    /\ sent = <<>>
    /\ received = 0
    /\ pdfTasks = {}
    /\ unmTasks = {}
    /\ report = <<>>

\* self.t.lock().await returns: the mutex is free and becomes the caller's,
\* who starts sleep(self.delay)
Lock(c) ==
    /\ fnIn.kind = "limit"
    /\ fnOut.callers[c].pc = "idle"
    /\ \A d \in 1..MaxCallers : fnOut.callers[d].pc = "idle"
    /\ fnOut' = [fnOut EXCEPT !.callers[c] = [pc |-> "sleep", wake |-> fnOut.now + Delay]]
    /\ CacheFrame

\* mutant: get returns the guard without the sleep
Granted_NoSleep(c) ==
    /\ fnIn.kind = "limit"
    /\ fnOut.callers[c].pc = "sleep"
    /\ fnOut' = [fnOut EXCEPT !.callers[c].pc = "holds", !.grants = Append(@, fnOut.now)]
    /\ CacheFrame

\* the sleep is over, at its deadline or later, and get returns the guard
Granted(c) ==
    /\ fnIn.kind = "limit"
    /\ fnOut.callers[c].pc = "sleep"
    /\ fnOut.now >= fnOut.callers[c].wake
    /\ fnOut' = [fnOut EXCEPT !.callers[c].pc = "holds", !.grants = Append(@, fnOut.now)]
    /\ CacheFrame

\* the guard is dropped: in Client::gs at the end of the statement that
\* builds the request
Release(c) ==
    /\ fnIn.kind = "limit"
    /\ fnOut.callers[c].pc = "holds"
    /\ fnOut' = [fnOut EXCEPT !.callers[c].pc = "idle"]
    /\ CacheFrame

Tick ==
    /\ fnIn.kind = "limit"
    /\ fnOut.now < MaxTime
    /\ fnOut' = [fnOut EXCEPT !.now = @ + 1]
    /\ CacheFrame

SpecLimit ==
    InitLimit /\ [][Tick \/ \E c \in 1..MaxCallers : Lock(c) \/ Granted(c) \/ Release(c)]_vars

(***************************************************************************)
(* submission_to_student_map alone, on submissions metadata with repeated  *)
(* student ids, students gone from the roster and keys that differ from    *)
(* the id of their submission.                                             *)
(***************************************************************************)
\* most active user ids of one submission
MaxActive == 2

InitRoster ==
    /\ props \in
          [students : {<<>>, <<Student(1, "alice")>>,
                       <<Student(1, "alice"), Student(2, "bob")>>,
                       <<Student(1, "alice"), Student(2, "bob"), Student(1, "al")>>},
           submissions :
              UNION {[keys -> [id : {Chars(1), Chars(2)},
                               active_user_ids : SeqsUpTo({1, 2, 9}, MaxActive)]]
                     : keys \in SUBSET {Chars(1), Chars(2)}}]
    /\ fnIn = [kind |-> "roster"]
    /\ fnOut = [done |-> FALSE]
    /\ archive = <<>>
    /\ outline = CourseOutline
    /\ phase = "off"
    /\ all_questions = <<>>
    /\ roster = <<>>
    /\ zipPos = 1
    /\ reader = "idle"
    /\ sent = <<>>
    /\ received = 0
    /\ pdfTasks = {}
    /\ unmTasks = {}
    /\ report = <<>>

ApplySubmissionToStudentMap ==
    /\ fnIn.kind = "roster"
    /\ ~fnOut.done
    /\ \E res \in {submission_to_student_map(props)} : fnOut' = [done |-> TRUE, res |-> res]
    /\ CacheFrame

SpecRoster == InitRoster /\ [][ApplySubmissionToStudentMap]_vars

(***************************************************************************)
(* Pair::make_pairs (lib203): individual and groupwork assignments paired  *)
(* by homework number.  An assignment is [number, name].                   *)
(***************************************************************************)
\* most assignments of one kind
MaxHw == 3

\* mutant: the later pair wins
merge_Last(self, other) ==
    [id |-> IF other.id.some THEN other.id ELSE self.id,
     gw |-> IF other.gw.some THEN other.gw ELSE self.gw]

\* Pair::merge: Option::or keeps self's value when there is one
merge(self, other) ==
    [id |-> IF self.id.some THEN self.id ELSE other.id,
     gw |-> IF self.gw.some THEN self.gw ELSE other.gw]

\* into_grouping_map().fold_first(|a, _, b| a.merge(b)) over the chained
\* (number, pair) items
RECURSIVE FoldFirst(_, _)
FoldFirst(map, hws) ==
    IF hws = <<>> THEN map
    ELSE LET key == Head(hws).number
             b == Head(hws).pair
         IN FoldFirst([k \in (DOMAIN map) \cup {key} |->
                          IF k # key THEN map[k]
                          ELSE IF key \in DOMAIN map THEN merge(map[key], b) ELSE b],
                      Tail(hws))

\* Pair::make_pairs, with from_individual and from_groupwork
make_pairs(ids, gws) ==
    FoldFirst(<<>>,
              [i \in 1..Len(ids) |-> [number |-> ids[i].number,
                                      pair |-> [id |-> Some(ids[i]), gw |-> None]]]
              \o [i \in 1..Len(gws) |-> [number |-> gws[i].number,
                                         pair |-> [id |-> None, gw |-> Some(gws[i])]]])

Hw(number, name) == [number |-> number, name |-> name]

InitPairs ==
    /\ fnIn \in [kind : {"pairs"},
                 ids : SeqsUpTo({Hw(1, "ID1"), Hw(3, "ID3"), Hw(4, "ID4"), Hw(1, "ID1 late")}, MaxHw),
                 gws : SeqsUpTo({Hw(1, "GW1"), Hw(2, "GW2"), Hw(4, "GW4"), Hw(2, "GW2 late")}, MaxHw)]
    /\ fnOut = [done |-> FALSE]
    /\ archive = <<>>
    /\ props = CourseProps
    /\ outline = CourseOutline
    /\ phase = "off"
    /\ all_questions = <<>>
    /\ roster = <<>>
    /\ zipPos = 1
    /\ reader = "idle"
    /\ sent = <<>>
    /\ received = 0
    /\ pdfTasks = {}
    /\ unmTasks = {}
    /\ report = <<>>

ApplyMakePairs ==
    /\ fnIn.kind = "pairs"
    /\ ~fnOut.done
    /\ \E pairs \in {make_pairs(fnIn.ids, fnIn.gws)} : fnOut' = [done |-> TRUE, pairs |-> pairs]
    /\ CacheFrame

SpecPairs == InitPairs /\ [][ApplyMakePairs]_vars

(***************************************************************************)
(* identify_unmatched: one inner stream per selector, merged by            *)
(* flat_map_unordered.  fnIn.plan gives, per selector, where               *)
(* single_assignment fails ("none" for nowhere) and the items of its       *)
(* report stream; fnOut holds the inner streams and the combined stream.   *)
(***************************************************************************)
\* most items of one report stream
MaxItems == 2

\* the selectors given to identify_unmatched
Selectors == {1, 2}

\* where single_assignment can fail: select_from, save_submissions_to_fs,
\* and the three futures of try_join3 in find_unsubmitted
Stages == {"select", "export", "open", "roster", "outline"}

InitIdentify ==
    /\ fnIn \in [kind : {"identify"},
                 plan : [Selectors ->
                            [fails : Stages, items : {<<>>}]
                            \cup [fails : {"none"},
                                  items : SeqsUpTo({Ok("report"), Err("pdf")}, MaxItems)]]]
    /\ fnOut = [combined |-> <<>>,
                streams |-> [sel \in Selectors |-> [state |-> "pending", rest |-> <<>>]]]
    /\ archive = <<>>
    /\ props = CourseProps
    /\ outline = CourseOutline
    /\ phase = "off"
    /\ all_questions = <<>>
    /\ roster = <<>>
    /\ zipPos = 1
    /\ reader = "idle"
    /\ sent = <<>>
    /\ received = 0
    /\ pdfTasks = {}
    /\ unmTasks = {}
    /\ report = <<>>

\* mutant: the error of one selector ends the stream of every selector
single_assignment_wrapper_FailAll(sel) ==
    /\ fnIn.kind = "identify"
    /\ fnOut.streams[sel].state = "pending"
    /\ IF fnIn.plan[sel].fails = "none"
       THEN fnOut' = [fnOut EXCEPT !.streams[sel] = [state |-> "open", rest |-> fnIn.plan[sel].items]]
       ELSE fnOut' = [fnOut EXCEPT
                         !.streams = [t \in Selectors |->
                                         IF t = sel
                                         THEN [state |-> "open", rest |-> <<Err(fnIn.plan[sel].fails)>>]
                                         ELSE [state |-> "ended", rest |-> <<>>]]]
    /\ CacheFrame

\* single_assignment ends: Ok(stream) is the selector's inner stream, and
\* Err(err) becomes the stream of the one item Err(err)
single_assignment_wrapper(sel) ==
    /\ fnIn.kind = "identify"
    /\ fnOut.streams[sel].state = "pending"
    /\ IF fnIn.plan[sel].fails = "none"
       THEN fnOut' = [fnOut EXCEPT !.streams[sel] = [state |-> "open", rest |-> fnIn.plan[sel].items]]
       ELSE fnOut' = [fnOut EXCEPT !.streams[sel] = [state |-> "open",
                                                     rest |-> <<Err(fnIn.plan[sel].fails)>>]]
    /\ CacheFrame

\* flat_map_unordered polls an inner stream: its next item goes to the
\* combined stream, or the inner stream has ended
PollInner(sel) ==
    /\ fnIn.kind = "identify"
    /\ fnOut.streams[sel].state = "open"
    /\ IF fnOut.streams[sel].rest = <<>>
       THEN fnOut' = [fnOut EXCEPT !.streams[sel].state = "ended"]
       ELSE fnOut' = [fnOut EXCEPT
                         !.combined = Append(@, [sel |-> sel, item |-> Head(fnOut.streams[sel].rest)]),
                         !.streams[sel].rest = Tail(@)]
    /\ CacheFrame

SpecIdentify ==
    InitIdentify /\ [][\E sel \in Selectors : single_assignment_wrapper(sel) \/ PollInner(sel)]_vars

(***************************************************************************)
(* Properties of the matching state (SpecMatching).                        *)
(***************************************************************************)
\* the pages that start a run of equal kinds
RunStarts == {i \in 1..Len(fnIn.kinds) : i = 1 \/ fnIn.kinds[i] # fnIn.kinds[i - 1]}

\* the runs that are summaries of a question
SummaryRuns == {i \in RunStarts : fnIn.kinds[i].kind = "QuestionSummary"}

\* the j-th summary run, in page order
SummaryRun(j) == CHOOSE i \in SummaryRuns : Cardinality({h \in SummaryRuns : h < i}) = j - 1

\* C31: question_matching yields one pair per run of equal summary pages, in
\* page order, with the run's number; the pair is Matched iff the page just
\* before the run is a submission page and Unmatched otherwise; submission
\* pages after the last summary yield nothing.
C31_OnePairPerSummary ==
    fnOut.done =>
        /\ Len(fnOut.matching) = Cardinality(SummaryRuns)
        /\ \A j \in 1..Len(fnOut.matching) :
              LET i == SummaryRun(j)
              IN /\ fnOut.matching[j].number = fnIn.kinds[i].number
                 /\ fnOut.matching[j].state =
                       IF i > 1 /\ fnIn.kinds[i - 1].kind = "StudentSubmission"
                       THEN "Matched" ELSE "Unmatched"

\* two submission pages matched to question 1, question 2 unmatched, and a
\* submission page left over
C31_Witness ==
    /\ fnOut.done
    /\ fnIn.kinds = <<StudentSubmission, StudentSubmission, QuestionSummary(<<1>>),
                      QuestionSummary(<<2>>)>>
    /\ fnOut.matching = <<Matching("Matched", <<1>>), Matching("Unmatched", <<2>>)>>

(***************************************************************************)
(* Properties of the export cache (SpecCache, SpecRace).                   *)
(***************************************************************************)
\* the file at the final path is there and has every chunk
ZipComplete ==
    /\ fnOut.names.zip # 0
    /\ \A i \in 1..fnIn.chunks : fnOut.inodes[fnOut.names.zip][i] # 0

\* C32: a call that finds a file at the final path returns Ok at once; it
\* issues no request and the directory and every file stay as they are.
C32_CacheHitTouchesNothing ==
    [][\A c \in 1..MaxCalls :
          (fnOut.calls[c].pc = "idle" /\ fnOut'.calls[c].pc # "idle" /\ fnOut.names.zip # 0)
              => /\ fnOut'.calls[c].pc = "ok"
                 /\ fnOut'.requests = fnOut.requests
                 /\ fnOut'.names = fnOut.names
                 /\ fnOut'.inodes = fnOut.inodes]_vars

\* the second call has returned Ok without a request
C32_Witness ==
    /\ ~fnIn.concurrent
    /\ fnOut.calls[1].pc = "ok" /\ fnOut.calls[1].requested
    /\ fnOut.calls[2].pc = "ok" /\ ~fnOut.calls[2].requested
    /\ fnOut.requests = 1

\* C33: with calls one after the other, a file at the final path has every
\* chunk, all written by one call that then returned Ok; while no download
\* has been renamed into place there is no file at the final path, and
\* every call made so far has requested the export.
C33_FinalPathOnlyByRename ==
    /\ fnOut.names.zip # 0 =>
          \E d \in 1..MaxCalls :
              /\ fnOut.calls[d].pc = "ok" /\ fnOut.calls[d].requested
              /\ \A i \in 1..fnIn.chunks : fnOut.inodes[fnOut.names.zip][i] = d
    /\ (\A d \in 1..MaxCalls : ~(fnOut.calls[d].pc = "ok" /\ fnOut.calls[d].requested)) =>
          /\ fnOut.names.zip = 0
          /\ \A c \in 1..MaxCalls : fnOut.calls[c].pc # "idle" => fnOut.calls[c].requested
    /\ fnOut.requests = Cardinality({c \in 1..MaxCalls : fnOut.calls[c].requested})

\* the first download failed after its first chunk, the second call
\* downloaded again and its file is at the final path
C33_Witness ==
    /\ ~fnIn.concurrent
    /\ fnIn.chunks = MaxChunks
    /\ fnOut.calls[1].pc = "err" /\ fnOut.calls[1].failure = "chunk" /\ fnOut.calls[1].pos = 1
    /\ fnOut.calls[2].pc = "ok" /\ fnOut.calls[2].requested
    /\ \A i \in 1..fnIn.chunks : fnOut.inodes[fnOut.names.zip][i] = 2

\* C34 (as stated): when concurrent calls have all ended and no request and
\* no chunk has failed, every call has returned Ok and the file at the final
\* path has every chunk.
C34_BothCallsSucceed ==
    (/\ \A c \in 1..MaxCalls : fnOut.calls[c].pc \in {"ok", "err"}
     /\ \A c \in 1..MaxCalls : fnOut.calls[c].failure \notin {"request", "chunk"})
        => /\ \A c \in 1..MaxCalls : fnOut.calls[c].pc = "ok"
           /\ ZipComplete

\* what does hold for concurrent calls: a file at the final path was put
\* there by a rename, and a call fails only in a request, in a chunk or in
\* the rename of a .tmp path that another call has renamed away
C34_RenameCanFail ==
    /\ fnOut.names.zip # 0 => \E d \in 1..MaxCalls : fnOut.calls[d].pc = "ok" /\ fnOut.calls[d].requested
    /\ \A c \in 1..MaxCalls :
          fnOut.calls[c].failure = "rename" =>
              \E d \in 1..MaxCalls : d # c /\ fnOut.calls[d].pc = "ok" /\ fnOut.calls[d].requested

(***************************************************************************)
(* Properties of await_export_completion (SpecExport).                     *)
(***************************************************************************)
\* C35: the loop returns the download path only with a last response of
\* status "completed"; after "unprocessed", "processing" or an unknown
\* status it sleeps and requests again; it ends otherwise only with the
\* error of a failed request or of a response that does not decode; and once
\* the status is "completed" the loop returns unless a request fails.
C35_ReturnsOnlyWhenCompleted ==
    /\ [](fnOut.pc = "returned" => fnOut.last = "completed" /\ fnOut.result = "download_path")
    /\ [](fnOut.pc = "sleep" => fnOut.last \in {"unprocessed", "processing", "failed"})
    /\ [](fnOut.pc = "error" => fnOut.last \in {"send", "json"} /\ fnOut.result = fnOut.last)
    /\ [](fnOut.pc = "request" => fnOut.last \in {"none", "unprocessed", "processing", "failed"})
    /\ [][fnOut.pc \in {"returned", "error"} => fnOut'.pc = fnOut.pc]_vars
    /\ (fnOut.server = "completed") ~> (fnOut.pc \in {"returned", "error"})

\* returned after a processing, an unknown and a completed status
C35_Witness ==
    /\ fnIn.kind = "export"
    /\ fnOut.pc = "returned"
    /\ fnOut.seen = <<"processing", "failed", "completed">>

(***************************************************************************)
(* Properties of the rate limit (SpecLimit).                               *)
(***************************************************************************)
\* C36: at most one caller is past lock() (sleeping with the guard or
\* holding the client) at a time, and any two successive returns of the
\* guard are at least the delay apart.
C36_OneHolderAndSpacedGrants ==
    /\ Cardinality({c \in 1..MaxCallers : fnOut.callers[c].pc \in {"sleep", "holds"}}) <= 1
    /\ \A i \in 1..(Len(fnOut.grants) - 1) : fnOut.grants[i + 1] - fnOut.grants[i] >= Delay

\* the second caller got the client exactly one delay after the first
C36_Witness ==
    /\ fnIn.kind = "limit"
    /\ fnOut.grants = <<Delay, Delay + Delay>>
    /\ fnOut.callers[2].pc = "holds"
    /\ fnOut.callers[1].pc = "idle"

(***************************************************************************)
(* Properties of submission_to_student_map (SpecRoster).                   *)
(***************************************************************************)
\* the positions of the active user ids that the student list knows
KnownAt(ids) == {i \in 1..Len(ids) : \E n \in 1..Len(props.students) : props.students[n].id = ids[i]}

\* the student the id-to-student map holds for an id: the last one listed
Named(id) ==
    props.students[CHOOSE n \in 1..Len(props.students) :
                      /\ props.students[n].id = id
                      /\ \A h \in 1..Len(props.students) : props.students[h].id = id => h <= n]

\* C38: submission_to_student_map is an error when the key of some
\* submission differs from the id in its value; otherwise the map has the
\* keys of the input, and each list has, in the order of the active user
\* ids, the students named by the ids that the student list knows.
C38_MapOrError ==
    fnOut.done =>
        IF \E key \in DOMAIN props.submissions : props.submissions[key].id # key
        THEN ~fnOut.res.ok
        ELSE /\ fnOut.res.ok
             /\ DOMAIN fnOut.res.val = DOMAIN props.submissions
             /\ \A key \in DOMAIN props.submissions :
                   LET ids == props.submissions[key].active_user_ids
                       list == fnOut.res.val[key]
                   IN /\ Len(list) = Cardinality(KnownAt(ids))
                      /\ \A i \in KnownAt(ids) :
                            list[Cardinality({h \in KnownAt(ids) : h <= i})] = Named(ids[i])

\* submission 1 lists bob, a student who has left and alice, whose id is
\* listed twice in the roster; submission 2 lists nobody
C38_Witness ==
    /\ fnIn.kind = "roster"
    /\ fnOut.done
    /\ Len(props.students) = 3
    /\ DOMAIN props.submissions = {Chars(1), Chars(2)}
    /\ props.submissions[Chars(1)] = [id |-> Chars(1), active_user_ids |-> <<2, 1>>]
    /\ props.submissions[Chars(2)] = [id |-> Chars(2), active_user_ids |-> <<9>>]
    /\ fnOut.res = Ok((Chars(1) :> <<Student(2, "bob"), Student(1, "al")>>) @@ (Chars(2) :> <<>>))

\* one key differs from the id of its submission and there is no map
C38_WitnessMismatch ==
    /\ fnIn.kind = "roster"
    /\ fnOut.done
    /\ DOMAIN props.submissions = {Chars(1), Chars(2)}
    /\ props.submissions[Chars(1)].id = Chars(1)
    /\ props.submissions[Chars(2)].id = Chars(1)
    /\ ~fnOut.res.ok

(***************************************************************************)
(* Properties of make_pairs (SpecPairs).                                   *)
(***************************************************************************)
\* the first assignment of a list with a number, if there is one
FirstWith(list, number) ==
    LET at == {i \in 1..Len(list) : list[i].number = number}
    IN IF at = {} THEN None ELSE Some(list[CHOOSE i \in at : \A h \in at : i <= h])

\* C39: the map of make_pairs has one key per homework number among the
\* individuals and groupworks; each value holds the first individual and the
\* first groupwork of that number, where there is one, and never neither.
C39_OnePairPerNumber ==
    fnOut.done =>
        /\ DOMAIN fnOut.pairs = {fnIn.ids[i].number : i \in 1..Len(fnIn.ids)}
                                \cup {fnIn.gws[i].number : i \in 1..Len(fnIn.gws)}
        /\ \A n \in DOMAIN fnOut.pairs :
              /\ fnOut.pairs[n].id = FirstWith(fnIn.ids, n)
              /\ fnOut.pairs[n].gw = FirstWith(fnIn.gws, n)
              /\ fnOut.pairs[n].id.some \/ fnOut.pairs[n].gw.some

\* the example of the documentation
C39_Witness ==
    /\ fnIn.kind = "pairs"
    /\ fnOut.done
    /\ fnIn.ids = <<Hw(1, "ID1"), Hw(3, "ID3"), Hw(4, "ID4")>>
    /\ fnIn.gws = <<Hw(1, "GW1"), Hw(2, "GW2"), Hw(4, "GW4")>>
    /\ fnOut.pairs = (1 :> [id |-> Some(Hw(1, "ID1")), gw |-> Some(Hw(1, "GW1"))])
                     @@ (2 :> [id |-> None, gw |-> Some(Hw(2, "GW2"))])
                     @@ (3 :> [id |-> Some(Hw(3, "ID3")), gw |-> None])
                     @@ (4 :> [id |-> Some(Hw(4, "ID4")), gw |-> Some(Hw(4, "GW4"))])

\* two individuals of number 1: the first is kept
C39_WitnessFirstKept ==
    /\ fnIn.kind = "pairs"
    /\ fnOut.done
    /\ fnIn.ids = <<Hw(1, "ID1 late"), Hw(1, "ID1")>>
    /\ fnIn.gws = <<Hw(1, "GW1")>>
    /\ fnOut.pairs = (1 :> [id |-> Some(Hw(1, "ID1 late")), gw |-> Some(Hw(1, "GW1"))])

(***************************************************************************)
(* Properties of identify_unmatched (SpecIdentify).                        *)
(***************************************************************************)
\* the items of the combined stream that come from a selector, in order
ItemsFrom(sel) ==
    LET from == SelectSeq(fnOut.combined, LAMBDA x : x.sel = sel)
    IN [i \in 1..Len(from) |-> from[i].item]

\* C37: when the combined stream has ended, a selector whose
\* single_assignment failed has given exactly one item, the error of the
\* failure, and every other selector has given all the items of its report
\* stream, in their order.
C37_OneErrorOthersComplete ==
    (\A sel \in Selectors : fnOut.streams[sel].state = "ended") =>
        \A sel \in Selectors :
            IF fnIn.plan[sel].fails # "none"
            THEN ItemsFrom(sel) = <<Err(fnIn.plan[sel].fails)>>
            ELSE ItemsFrom(sel) = fnIn.plan[sel].items

\* selector 1 fails in the export before selector 2 has given its second
\* item, and both of selector 2's items are in the combined stream
C37_Witness ==
    /\ fnIn.kind = "identify"
    /\ \A sel \in Selectors : fnOut.streams[sel].state = "ended"
    /\ fnIn.plan[1].fails = "export"
    /\ fnIn.plan[2] = [fails |-> "none", items |-> <<Ok("report"), Err("pdf")>>]
    /\ fnOut.combined = <<[sel |-> 2, item |-> Ok("report")], [sel |-> 1, item |-> Err("export")],
                          [sel |-> 2, item |-> Err("pdf")]>>

====
